---- MODULE Spec2Model ----
(***************************************************************************)
(* TrustyFile: the scoring engine (src/src/scoring.py), the orchestrator   *)
(* (src/src/analyzer.py) and the external verifier                         *)
(* (src/src/modules/external.py) as state machines, with the module        *)
(* scores, the identifier checksums (src/src/modules/content.py), the      *)
(* 2D-DOC dates (src/src/modules/twod_doc.py) and the document handles of  *)
(* the functions that open the PDF themselves.                             *)
(*                                                                         *)
(* Numbers.  Python computes the weighted average in binary floating       *)
(* point.  Here a confidence is the exact fraction <<num, den>> and a      *)
(* module weight is kept in tenths, so every sum below is exact integer    *)
(* arithmetic over a common denominator.  The two agree except when the    *)
(* exact average lies halfway between two integers: the floating-point     *)
(* quotient then falls on either side of the half (content 0 at confidence *)
(* 1.0 with visual 45 at confidence 0.3 is exactly 7.5 and returns 7;      *)
(* metadata 45 with forensics 100 is exactly 72.5 and returns 72), so at   *)
(* an exact tie round() is a choice between the two neighbours.            *)
(***************************************************************************)
EXTENDS Integers, Sequences, FiniteSets, TLC

VARIABLES
    pc,              \* position of the running operation
    module_results,  \* list[ModuleResult] handed to create_analysis_result
    result,          \* the AnalysisResult returned, or NoResult
    final_score,     \* what calculate_final_score returned, or -1
    \* TrustyFileAnalyzer.analyze
    enable_external, \* self.enable_external
    file,            \* what file_path names
    exception,       \* the exception analyze raised, or "none"
    failed_module,   \* the module whose call raised, or "none"
    \* analyze_external
    doc,                      \* the identifiers extracted from the text
    idx,                      \* position in the list being verified
    all_flags,
    verifications_attempted,
    verifications_successful,
    queries,                  \* the lookups issued so far, in order
    \* one call of a module or of a helper function
    fn,              \* the function called, or "none"
    arg,             \* its argument
    ret,             \* what it returned, or "none"
    handle           \* the document handle it opened: "none", "open", "closed"

scoringVars == <<module_results, result, final_score>>
analyzerVars == <<enable_external, file, exception, failed_module>>
externalVars == <<doc, idx, all_flags, verifications_attempted,
                  verifications_successful, queries>>
callVars == <<fn, arg, ret, handle>>
vars == <<pc, scoringVars, analyzerVars, externalVars, callVars>>

\* ------------------------------------------------------------------ bounds
\* the longest list of module results
MaxModules == 2
\* the most flags the results of one list carry in total
MaxFlags == 2

\* ------------------------------------------------------------------ helpers
Min(a, b) == IF a <= b THEN a ELSE b
Max(a, b) == IF a >= b THEN a ELSE b

RECURSIVE Gcd(_, _)
Gcd(a, b) == IF b = 0 THEN a ELSE Gcd(b, a % b)
Lcm(a, b) == (a \div Gcd(a, b)) * b

\* all sequences over S of length 0..n
SeqsUpTo(S, n) == UNION {[1..k -> S] : k \in 0..n}

\* ------------------------------------------------------------------ models.py
SeverityLevel == {"low", "medium", "high", "critical"}

Flag(sev, code) == [severity |-> sev, code |-> code]

\* a Flag with its details (the message is left out)
DetailedFlag(severity, code, details) ==
    [severity |-> severity, code |-> code, details |-> details]

ModuleResult(name, flags, score, confidence) ==
    [module |-> name, flags |-> flags, score |-> score, confidence |-> confidence]

NoResult == [trust_score |-> -1, risk_level |-> "NONE", modules |-> <<>>]

AnalysisResult(ts, rl, mods) == [trust_score |-> ts, risk_level |-> rl, modules |-> mods]

\* ------------------------------------------------------------------ scoring.py
\* module weights, in tenths
DEFAULT_WEIGHT == 10

\* the table without its last entry
MODULE_WEIGHTS_NoExternal(name) ==
    CASE name = "metadata"  -> 10
      [] name = "content"   -> 12
      [] name = "visual"    -> 8
      [] name = "fonts"     -> 9
      [] name = "images"    -> 8
      [] name = "structure" -> 13
      [] OTHER              -> DEFAULT_WEIGHT

MODULE_WEIGHTS(name) ==
    CASE name = "metadata"  -> 10
      [] name = "content"   -> 12
      [] name = "visual"    -> 8
      [] name = "fonts"     -> 9
      [] name = "images"    -> 8
      [] name = "structure" -> 13
      [] name = "external"  -> 15
      [] OTHER              -> DEFAULT_WEIGHT

\* get_risk_level with the thresholds taken strictly
get_risk_level_Strict(score) ==
    IF score > 80 THEN "LOW"
    ELSE IF score > 50 THEN "MEDIUM"
    ELSE IF score > 20 THEN "HIGH"
    ELSE "CRITICAL"

get_risk_level(score) ==
    IF score >= 80 THEN "LOW"
    ELSE IF score >= 50 THEN "MEDIUM"
    ELSE IF score >= 20 THEN "HIGH"
    ELSE "CRITICAL"

\* round() of the floating-point quotient of n by d (d > 0, n >= 0): what it
\* can return.  The nearest integer; at an exact tie either neighbour.
PyRound(n, d) ==
    LET q == n \div d
        r == n % d
    IN  IF 2 * r < d THEN {q}
        ELSE IF 2 * r > d THEN {q + 1}
        ELSE {q, q + 1}

\* The loop of calculate_final_score over module_results[1..k]: the pair of
\* running sums weighted_sum and weight_total, as numerators over the common
\* denominator den (tenths of weight times the confidences' denominators).
RECURSIVE WeightedSums(_, _)
WeightedSums(mr, k) ==
    IF k = 0 THEN [weighted_sum |-> 0, weight_total |-> 0, den |-> 1]
    ELSE LET acc == WeightedSums(mr, k - 1)
             r == mr[k]
             weight == MODULE_WEIGHTS(r.module)
             en == weight * r.confidence[1]      \* effective_weight = en / ed
             ed == r.confidence[2]
             nd == Lcm(acc.den, ed)
         IN  [weighted_sum |-> acc.weighted_sum * (nd \div acc.den)
                                 + r.score * en * (nd \div ed),
              weight_total |-> acc.weight_total * (nd \div acc.den)
                                 + en * (nd \div ed),
              den |-> nd]

\* calculate_final_score answering 0 when no module carries any weight
calculate_final_score_ZeroWhenNoWeight(mr) ==
    IF Len(mr) = 0 THEN {100}
    ELSE LET s == WeightedSums(mr, Len(mr))
         IN  IF s.weight_total = 0 THEN {0}
             ELSE IF s.weighted_sum > 100 * s.weight_total THEN {100}
             ELSE IF s.weighted_sum < 0 THEN {0}
             ELSE PyRound(s.weighted_sum, s.weight_total)

\* the values calculate_final_score(mr) can return
calculate_final_score(mr) ==
    IF Len(mr) = 0 THEN {100}
    ELSE LET s == WeightedSums(mr, Len(mr))
         IN  IF s.weight_total = 0 THEN {100}
             ELSE IF s.weighted_sum > 100 * s.weight_total THEN {100}
             ELSE IF s.weighted_sum < 0 THEN {0}
             ELSE PyRound(s.weighted_sum, s.weight_total)

RECURSIVE ConcatFlags(_, _)
ConcatFlags(mr, k) ==
    IF k = 0 THEN <<>> ELSE ConcatFlags(mr, k - 1) \o mr[k].flags

severity_order(sev) ==
    CASE sev = "critical" -> 0
      [] sev = "high"     -> 1
      [] sev = "medium"   -> 2
      [] sev = "low"      -> 3
      [] OTHER            -> 4

\* list.sort(key=...) is stable: the flags of each key in their original
\* order, keys ascending.
StableSortBySeverity(fs) ==
    LET Bucket(k) == SelectSeq(fs, LAMBDA f : severity_order(f.severity) = k)
    IN  Bucket(0) \o Bucket(1) \o Bucket(2) \o Bucket(3) \o Bucket(4)

\* a collector that keeps one flag per code
RECURSIVE DedupByCode(_)
DedupByCode(fs) ==
    IF fs = <<>> THEN <<>>
    ELSE LET n == Len(fs)
             init == DedupByCode(SubSeq(fs, 1, n - 1))
         IN  IF \E i \in 1..(n - 1) : fs[i].code = fs[n].code
             THEN init ELSE Append(init, fs[n])

\* a collector whose sort does not keep the order of equal keys
collect_all_flags_Unstable(mr) ==
    LET fs == ConcatFlags(mr, Len(mr))
        reversed == [i \in 1..Len(fs) |-> fs[Len(fs) + 1 - i]]
    IN  StableSortBySeverity(reversed)

collect_all_flags_Dedup(mr) == StableSortBySeverity(DedupByCode(ConcatFlags(mr, Len(mr))))

collect_all_flags(mr) == StableSortBySeverity(ConcatFlags(mr, Len(mr)))

count_flags_by_severity(flags) ==
    [sev \in SeverityLevel |-> Len(SelectSeq(flags, LAMBDA f : f.severity = sev))]

\* the override without the raise of the risk level
CriticalOverride_CapOnly(st, flag_counts) ==
    IF flag_counts["critical"] >= 1
    THEN [risk_level |-> st.risk_level,
          trust_score |-> Max(Min(st.trust_score, 40)
                                - flag_counts["high"] * 5
                                - flag_counts["medium"] * 2, 5)]
    ELSE st

\* the override without the floor of 5
CriticalOverride_NoFloor(st, flag_counts) ==
    IF flag_counts["critical"] >= 1
    THEN [risk_level |-> IF st.risk_level \in {"LOW", "MEDIUM"} THEN "HIGH" ELSE st.risk_level,
          trust_score |-> Min(st.trust_score, 40)
                                - flag_counts["high"] * 5
                                - flag_counts["medium"] * 2]
    ELSE st

\* lines 186-197: the override for at least one critical flag
CriticalOverride(st, flag_counts) ==
    IF flag_counts["critical"] >= 1
    THEN [risk_level |-> IF st.risk_level \in {"LOW", "MEDIUM"} THEN "HIGH" ELSE st.risk_level,
          trust_score |-> Max(Min(st.trust_score, 40)
                                - flag_counts["high"] * 5
                                - flag_counts["medium"] * 2, 5)]
    ELSE st

\* the second override taking effect from three critical flags on
MultiCriticalOverride_FromThree(st, flag_counts) ==
    IF flag_counts["critical"] >= 3
    THEN [risk_level |-> "CRITICAL", trust_score |-> Min(st.trust_score, 19)]
    ELSE st

\* lines 199-202: the override for two or more critical flags
MultiCriticalOverride(st, flag_counts) ==
    IF flag_counts["critical"] >= 2
    THEN [risk_level |-> "CRITICAL", trust_score |-> Min(st.trust_score, 19)]
    ELSE st

\* lines 178-210, trust_score being what line 176 computed
AnalysisResultFrom(mr, trust_score) ==
    LET risk_level == get_risk_level(trust_score)
        collected == collect_all_flags(mr)
        flag_counts == count_flags_by_severity(collected)
        st1 == CriticalOverride([risk_level |-> risk_level, trust_score |-> trust_score],
                                flag_counts)
        st2 == MultiCriticalOverride(st1, flag_counts)
    IN  AnalysisResult(st2.trust_score, st2.risk_level, mr)

\* the results create_analysis_result(mr) can return
create_analysis_result(mr) ==
    {AnalysisResultFrom(mr, trust_score) : trust_score \in calculate_final_score(mr)}

\* ------------------------------------------------------------------ inputs
\* the modules in the order of their letters A to H, structure (E) before
\* images (F)
MODULE_ORDER_ByLetter == <<"metadata", "content", "visual", "fonts", "structure",
                           "images", "forensics", "external">>

\* the order in which analyze appends the modules' results
MODULE_ORDER == <<"metadata", "content", "visual", "fonts", "images",
                  "structure", "forensics", "external">>

ScoreVals == {0, 20, 100}
ConfVals == {<<1, 2>>, <<1, 1>>}
FlagVals == {Flag("critical", "META_AI_GENERATED"),
             Flag("high", "META_ONLINE_CONVERTER"),
             Flag("medium", "CONTENT_ANACHRONISM_SERVICE"),
             Flag("low", "FONTS_SYSTEM_FONTS")}

RECURSIVE TotalLen(_, _)
TotalLen(seqs, k) == IF k = 0 THEN 0 ELSE TotalLen(seqs, k - 1) + Len(seqs[k])

TotalFlags(mr) == TotalLen([i \in DOMAIN mr |-> mr[i].flags], Len(mr))

\* lists of up to maxModules results with up to maxFlags flags in total, the
\* i-th result carrying the i-th module name
ModuleResultLists(maxModules, maxFlags) ==
    UNION {
        {[i \in 1..k |-> ModuleResult(MODULE_ORDER[i], f[i], s[i], c[i])] :
            f \in {g \in [1..k -> SeqsUpTo(FlagVals, maxFlags)] : TotalLen(g, k) <= maxFlags},
            s \in [1..k -> ScoreVals],
            c \in [1..k -> ConfVals]} :
        k \in 0..maxModules}

\* ------------------------------------------------------------------ Spec
NoText == [siret_mentions |-> <<>>, siren_mentions |-> <<>>,
           pattern_mentions |-> <<>>, vat_mentions |-> <<>>]

NoDoc == [full_text |-> NoText, sirets |-> <<>>, sirens |-> <<>>,
          potential_sirens |-> <<>>, vats |-> <<>>]

AnalyzerIdle ==
    /\ enable_external = FALSE
    /\ file = "none"
    /\ exception = "none"
    /\ failed_module = "none"

ExternalIdle ==
    /\ doc = NoDoc
    /\ idx = 0
    /\ all_flags = <<>>
    /\ verifications_attempted = 0
    /\ verifications_successful = 0
    /\ queries = <<>>

CallIdle ==
    /\ fn = "none"
    /\ arg = "none"
    /\ ret = "none"
    /\ handle = "none"

\* create_analysis_result applied to every list of up to MaxModules results.
Init ==
    /\ pc = "collect"
    /\ module_results = <<>>
    /\ result = NoResult
    /\ final_score = -1
    /\ AnalyzerIdle
    /\ ExternalIdle
    /\ CallIdle

\* module_results.append(<a module's result>)
AppendResult ==
    /\ pc = "collect"
    /\ Len(module_results) < MaxModules
    /\ \E f \in SeqsUpTo(FlagVals, MaxFlags - TotalFlags(module_results)),
          s \in ScoreVals, c \in ConfVals :
          module_results' = Append(module_results,
              ModuleResult(MODULE_ORDER[Len(module_results) + 1], f, s, c))
    /\ UNCHANGED <<callVars, pc, result, final_score, analyzerVars, externalVars>>

CreateAnalysisResult ==
    /\ pc = "collect"
    /\ result' \in create_analysis_result(module_results)
    /\ pc' = "done"
    /\ UNCHANGED <<callVars, module_results, final_score, analyzerVars, externalVars>>

Next == AppendResult \/ CreateAnalysisResult

Spec == Init /\ [][Next]_vars

\* ------------------------------------------------------------------ SpecScore
\* calculate_final_score applied to lists of results of any module name and
\* any confidence, zero included.
ModuleNames == {"metadata", "content", "visual", "fonts", "images",
                "structure", "forensics", "external", "custom"}
AverageScoreVals == {0, 45, 100}
AverageConfVals == {<<0, 1>>, <<3, 10>>, <<1, 1>>}

AppendScored ==
    /\ pc = "collect"
    /\ Len(module_results) < MaxModules
    /\ \E n \in ModuleNames, s \in AverageScoreVals, c \in AverageConfVals :
          module_results' = Append(module_results, ModuleResult(n, <<>>, s, c))
    /\ UNCHANGED <<callVars, pc, result, final_score, analyzerVars, externalVars>>

CalculateFinalScore ==
    /\ pc = "collect"
    /\ final_score' \in calculate_final_score(module_results)
    /\ pc' = "done"
    /\ UNCHANGED <<callVars, module_results, result, analyzerVars, externalVars>>

NextScore == AppendScored \/ CalculateFinalScore

SpecScore == Init /\ [][NextScore]_vars

\* ------------------------------------------------------------------ SpecAnalyze
\* TrustyFileAnalyzer.analyze, one step per statement that can raise.
FileVals == {"missing", "not_pdf", "corrupt_pdf", "pdf"}

\* what a module call returns when it returns
ModuleReturnVals(name) ==
    {ModuleResult(name, <<>>, 100, <<1, 1>>),
     ModuleResult(name, <<Flag("critical", "META_AI_GENERATED")>>, 50, <<1, 1>>)}

\* the modules analyze runs, in order
ModulesToRun ==
    IF enable_external THEN MODULE_ORDER ELSE SubSeq(MODULE_ORDER, 1, 7)

InitAnalyze ==
    /\ pc = "validate"
    /\ enable_external \in BOOLEAN
    /\ file \in FileVals
    /\ exception = "none"
    /\ failed_module = "none"
    /\ module_results = <<>>
    /\ result = NoResult
    /\ final_score = -1
    /\ ExternalIdle
    /\ CallIdle

\* path.exists() and the suffix test
ValidateFile ==
    /\ pc = "validate"
    /\ IF file = "missing"
         THEN /\ exception' = "FileNotFoundError"
              /\ pc' = "raised"
         ELSE IF file = "not_pdf"
         THEN /\ exception' = "ValueError"
              /\ pc' = "raised"
         ELSE /\ exception' = exception
              /\ pc' = "extract"
    /\ UNCHANGED <<callVars, scoringVars, enable_external, file, failed_module, externalVars>>

\* pdf_data = extract_pdf_data(file_path)
ExtractPdfData ==
    /\ pc = "extract"
    /\ IF file = "corrupt_pdf"
         THEN /\ exception' = "FileDataError"
              /\ pc' = "raised"
         ELSE /\ exception' = exception
              /\ pc' = "run"
    /\ UNCHANGED <<callVars, scoringVars, enable_external, file, failed_module, externalVars>>

\* module_results.append(analyze_<module>(...)) where the call returns
RunModule ==
    /\ pc = "run"
    /\ Len(module_results) < Len(ModulesToRun)
    /\ \E r \in ModuleReturnVals(ModulesToRun[Len(module_results) + 1]) :
          module_results' = Append(module_results, r)
    /\ UNCHANGED <<callVars, pc, result, final_score, analyzerVars, externalVars>>

\* the same statement where the call raises: nothing in analyze catches it
ModuleRaises ==
    /\ pc = "run"
    /\ Len(module_results) < Len(ModulesToRun)
    /\ exception' = "Exception"
    /\ failed_module' = ModulesToRun[Len(module_results) + 1]
    /\ pc' = "raised"
    /\ UNCHANGED <<callVars, scoringVars, enable_external, file, externalVars>>

\* result = create_analysis_result(...); return result
ReturnResult ==
    /\ pc = "run"
    /\ Len(module_results) = Len(ModulesToRun)
    /\ result' \in create_analysis_result(module_results)
    /\ pc' = "done"
    /\ UNCHANGED <<callVars, module_results, final_score, analyzerVars, externalVars>>

\* a cancellation that hands back what was collected so far
Cancel_ReturnsCollected ==
    /\ pc \in {"validate", "extract", "run"}
    /\ exception' = "KeyboardInterrupt"
    /\ result' \in create_analysis_result(module_results)
    /\ pc' = "done"
    /\ UNCHANGED <<callVars, module_results, final_score, enable_external, file,
                   failed_module, externalVars>>

\* the caller interrupts the call: KeyboardInterrupt is raised at the
\* statement being executed; it is not an Exception, so no handler of analyze
\* or of a module catches it, and the local module_results is dropped
Cancel ==
    /\ pc \in {"validate", "extract", "run"}
    /\ exception' = "KeyboardInterrupt"
    /\ pc' = "raised"
    /\ UNCHANGED <<callVars, scoringVars, enable_external, file, failed_module,
                   externalVars>>

NextAnalyze ==
    \/ ValidateFile
    \/ ExtractPdfData
    \/ RunModule
    \/ ModuleRaises
    \/ ReturnResult
    \/ Cancel

SpecAnalyze == InitAnalyze /\ [][NextAnalyze]_vars

\* ------------------------------------------------------------------ content.py
\* An identifier is its sequence of digits; a VAT number is the prefix and the
\* eleven digits after it.
RECURSIVE LuhnTotal(_, _, _)
\* the loop of validate_siret_checksum / validate_siren_checksum over the first
\* k digits; doubled = the remainder of the 0-based index that is doubled
LuhnTotal(digits, k, doubled) ==
    IF k = 0 THEN 0
    ELSE LET d == digits[k]
             d2 == IF (k - 1) % 2 = doubled
                     THEN (IF d * 2 > 9 THEN d * 2 - 9 ELSE d * 2)
                     ELSE d
         IN  LuhnTotal(digits, k - 1, doubled) + d2

validate_siret_checksum(siret) ==
    /\ Len(siret) = 14
    /\ LuhnTotal(siret, 14, 0) % 10 = 0

\* the SIREN check with the doubling of the SIRET check (even 0-based
\* positions)
validate_siren_checksum_EvenDoubled(siren) ==
    /\ Len(siren) = 9
    /\ LuhnTotal(siren, 9, 0) % 10 = 0

validate_siren_checksum(siren) ==
    /\ Len(siren) = 9
    /\ LuhnTotal(siren, 9, 1) % 10 = 0

RECURSIVE DigitsToInt(_, _)
\* int(<digits>)
DigitsToInt(digits, k) ==
    IF k = 0 THEN 0 ELSE DigitsToInt(digits, k - 1) * 10 + digits[k]

\* the VAT check without the check of the embedded SIREN
validate_french_vat_KeyOnly(vat) ==
    /\ vat.prefix = "FR"
    /\ Len(vat.digits) = 11
    /\ LET check_digits == DigitsToInt(SubSeq(vat.digits, 1, 2), 2)
           siren == SubSeq(vat.digits, 3, 11)
           expected_check == (12 + 3 * (DigitsToInt(siren, 9) % 97)) % 97
       IN  check_digits = expected_check

validate_french_vat(vat) ==
    /\ vat.prefix = "FR"
    /\ Len(vat.digits) = 11
    /\ LET check_digits == DigitsToInt(SubSeq(vat.digits, 1, 2), 2)
           siren == SubSeq(vat.digits, 3, 11)
           expected_check == (12 + 3 * (DigitsToInt(siren, 9) % 97)) % 97
       IN  /\ validate_siren_checksum(siren)
           /\ check_digits = expected_check

RECURSIVE Unique(_, _)
\* the "Deduplicate" loop: the first occurrence of each of the first k entries
Unique(xs, k) ==
    IF k = 0 THEN <<>>
    ELSE LET before == Unique(xs, k - 1)
         IN  IF \E i \in 1..(k - 1) : xs[i] = xs[k]
               THEN before
               ELSE Append(before, xs[k])

\* (identifier, is_valid) for every distinct mention
extract_siret(text) ==
    LET u == Unique(text.siret_mentions, Len(text.siret_mentions))
    IN  [i \in DOMAIN u |-> <<u[i], validate_siret_checksum(u[i])>>]

extract_siren(text) ==
    LET u == Unique(text.siren_mentions, Len(text.siren_mentions))
    IN  [i \in DOMAIN u |-> <<u[i], validate_siren_checksum(u[i])>>]

extract_french_vat(text) ==
    LET u == Unique(text.vat_mentions, Len(text.vat_mentions))
    IN  [i \in DOMAIN u |-> <<u[i], validate_french_vat(u[i])>>]

\* A datetime is a number of half days, timedelta(days=1) is two of them.
timedelta_days_1 == 2

ExtractedDate(date, date_type) == [date |-> date, date_type |-> date_type]

\* datetime.isoformat(): the text that writes the datetime
isoformat(date) == [isoformat |-> date]

\* [d for d in dates if d.date_type == date_type]
OfDateType(dates, date_type) ==
    SelectSeq(dates, LAMBDA d : d.date_type = date_type)

\* the service check without the day of tolerance
ServiceAnachronismFlags_NoTolerance(invoice_dates, service_dates) ==
    IF invoice_dates # <<>> /\ service_dates # <<>>
    THEN LET invoice_date == invoice_dates[1].date
             late == SelectSeq(service_dates, LAMBDA sd : sd.date > invoice_date)
         IN  [i \in DOMAIN late |->
                 DetailedFlag("high", "CONTENT_ANACHRONISM_SERVICE",
                     [invoice_date |-> isoformat(invoice_date),
                      service_date |-> isoformat(late[i].date)])]
    ELSE <<>>

\* "Check: Invoice date vs Service date"
ServiceAnachronismFlags(invoice_dates, service_dates) ==
    IF invoice_dates # <<>> /\ service_dates # <<>>
    THEN LET invoice_date == invoice_dates[1].date
             late == SelectSeq(service_dates,
                               LAMBDA sd : sd.date > invoice_date + timedelta_days_1)
         IN  [i \in DOMAIN late |->
                 DetailedFlag("high", "CONTENT_ANACHRONISM_SERVICE",
                     [invoice_date |-> isoformat(invoice_date),
                      service_date |-> isoformat(late[i].date)])]
    ELSE <<>>

\* "Check: Due date vs Invoice date"
DueAnachronismFlags(invoice_dates, due_dates) ==
    IF invoice_dates # <<>> /\ due_dates # <<>>
    THEN LET invoice_date == invoice_dates[1].date
             early == SelectSeq(due_dates,
                                LAMBDA dd : dd.date < invoice_date - timedelta_days_1)
         IN  [i \in DOMAIN early |->
                 DetailedFlag("high", "CONTENT_ANACHRONISM_DUE",
                     [invoice_date |-> isoformat(invoice_date),
                      due_date |-> isoformat(early[i].date)])]
    ELSE <<>>

\* "Check: Order date vs Invoice date"
OrderAnachronismFlags(invoice_dates, order_dates) ==
    IF invoice_dates # <<>> /\ order_dates # <<>>
    THEN LET invoice_date == invoice_dates[1].date
             late == SelectSeq(order_dates,
                               LAMBDA od : od.date > invoice_date + timedelta_days_1)
         IN  [i \in DOMAIN late |->
                 DetailedFlag("high", "CONTENT_ANACHRONISM_ORDER",
                     [invoice_date |-> isoformat(invoice_date),
                      order_date |-> isoformat(late[i].date)])]
    ELSE <<>>

check_date_logic(dates) ==
    LET invoice_dates == OfDateType(dates, "invoice")
        service_dates == OfDateType(dates, "service")
        due_dates == OfDateType(dates, "due")
        order_dates == OfDateType(dates, "order")
    IN  ServiceAnachronismFlags(invoice_dates, service_dates)
        \o DueAnachronismFlags(invoice_dates, due_dates)
        \o OrderAnachronismFlags(invoice_dates, order_dates)

\* the flags of the "Check SIRET/SIREN consistency with VAT" block when the
\* SIRENs are collected from every mention, valid or not
SirenVatMismatchFlags_AnyMention(sirets, sirens, vats) ==
    IF vats # <<>> /\ (sirets # <<>> \/ sirens # <<>>)
    THEN LET vat_sirens == {SubSeq(vats[i][1].digits, 3, 11) : i \in DOMAIN vats}
             doc_sirens ==
                 {SubSeq(sirets[i][1], 1, 9) : i \in DOMAIN sirets}
                 \cup {sirens[i][1] : i \in DOMAIN sirens}
         IN  IF vat_sirens # {} /\ doc_sirens # {} /\ vat_sirens \cap doc_sirens = {}
             THEN <<DetailedFlag("critical", "CONTENT_SIREN_VAT_MISMATCH",
                        [siren_from_vat |-> vat_sirens,
                         siren_from_document |-> doc_sirens])>>
             ELSE <<>>
    ELSE <<>>

\* the flags of the "Check SIRET/SIREN consistency with VAT" block; vat[4:]
\* is the part of the digits after the two key digits
SirenVatMismatchFlags(sirets, sirens, vats) ==
    IF vats # <<>> /\ (sirets # <<>> \/ sirens # <<>>)
    THEN LET vat_sirens ==
                 {SubSeq(vats[i][1].digits, 3, 11) : i \in {j \in DOMAIN vats : vats[j][2]}}
             doc_sirens ==
                 {SubSeq(sirets[i][1], 1, 9) : i \in {j \in DOMAIN sirets : sirets[j][2]}}
                 \cup {sirens[i][1] : i \in {j \in DOMAIN sirens : sirens[j][2]}}
         IN  IF vat_sirens # {} /\ doc_sirens # {} /\ vat_sirens \cap doc_sirens = {}
             THEN <<DetailedFlag("critical", "CONTENT_SIREN_VAT_MISMATCH",
                        [siren_from_vat |-> vat_sirens,
                         siren_from_document |-> doc_sirens])>>
             ELSE <<>>
    ELSE <<>>

\* one high flag for every extracted number whose checksum fails
InvalidFlags(extracted, code, key) ==
    LET invalid == SelectSeq(extracted, LAMBDA e : ~e[2])
    IN  [i \in DOMAIN invalid |->
            DetailedFlag("high", code, [number |-> invalid[i][1], key |-> key])]

\* has_rcs: extract_rcs finds a mention; is_likely_french_invoice: one of the
\* keywords "facture", "siret", "tva", "€", "eur" occurs in the text
check_legal_mentions(text, has_rcs, is_likely_french_invoice) ==
    LET sirets == extract_siret(text)
        sirens == extract_siren(text)
        vats == extract_french_vat(text)
        has_company_id == sirets # <<>> \/ sirens # <<>> \/ has_rcs
    IN  InvalidFlags(sirets, "CONTENT_INVALID_SIRET", "siret")
        \o InvalidFlags(sirens, "CONTENT_INVALID_SIREN", "siren")
        \o InvalidFlags(vats, "CONTENT_INVALID_VAT", "vat")
        \o SirenVatMismatchFlags(sirets, sirens, vats)
        \o (IF is_likely_french_invoice /\ ~has_company_id
            THEN <<DetailedFlag("medium", "CONTENT_MISSING_COMPANY_ID", <<>>)>>
            ELSE <<>>)

\* ------------------------------------------------------------------ external.py
\* the distinct XXX XXX XXX patterns that pass the SIREN checksum
extract_potential_sirens(text) ==
    LET u == Unique(text.pattern_mentions, Len(text.pattern_mentions))
    IN  SelectSeq(u, validate_siren_checksum)

\* Python's None: as a string where the value is otherwise a string, as the
\* empty tuple where it is otherwise an object held in a one-element tuple
None == "None"
NoObject == <<>>
Object(x) == <<x>>

\* what requests.get does for one lookup: a response with a status and a body,
\* or an exception with its text
HttpResponse(status, body) ==
    [status |-> status, body |-> body, raises |-> None, text |-> ""]
Raises(exc, text) ==
    [status |-> 0, body |-> None, raises |-> exc, text |-> text]

AnnuaireResponses ==
    {HttpResponse(200, b) : b \in {"active", "closed", "no_results"}}
    \cup {HttpResponse(st, None) : st \in {404, 429, 503}}
    \cup {Raises("Timeout", "Read timed out"),
          Raises("ConnectionError", "Connection refused"),
          Raises("ProxyError", "Tunnel connection failed: 404 Not Found")}

ViesResponses ==
    {HttpResponse(200, b) : b \in {"isValid", "notValid"}}
    \cup {HttpResponse(st, None) : st \in {404, 503}}
    \cup {Raises("Timeout", "Read timed out"),
          Raises("ConnectionError", "Connection refused")}

CompanyInfo(status) == [status |-> status]

verify_siret_annuaire(response) ==
    IF response.raises = "Timeout"
      THEN [company_info |-> NoObject, error |-> "API timeout (server too slow)"]
    ELSE IF response.raises # None
      THEN [company_info |-> NoObject, error |-> "API request failed: " \o response.text]
    ELSE IF response.status = 200
      THEN IF response.body = "no_results"
             THEN [company_info |-> NoObject, error |-> "SIRET not found in registry"]
             ELSE [company_info |-> Object(CompanyInfo(response.body)), error |-> None]
    ELSE IF response.status = 404
      THEN [company_info |-> NoObject, error |-> "SIRET not found in registry"]
    ELSE IF response.status = 429
      THEN [company_info |-> NoObject, error |-> "API rate limit exceeded (try again later)"]
    ELSE [company_info |-> NoObject, error |-> "API error: HTTP " \o ToString(response.status)]

verify_siren_annuaire(response) ==
    IF response.raises = "Timeout"
      THEN [company_info |-> NoObject, error |-> "API timeout"]
    ELSE IF response.raises # None
      THEN [company_info |-> NoObject, error |-> "API request failed: " \o response.text]
    ELSE IF response.status = 200
      THEN IF response.body = "no_results"
             THEN [company_info |-> NoObject, error |-> "SIREN not found in registry"]
             ELSE [company_info |-> Object(CompanyInfo(response.body)), error |-> None]
    ELSE IF response.status = 404
      THEN [company_info |-> NoObject, error |-> "SIREN not found in registry"]
    ELSE [company_info |-> NoObject, error |-> "API error: HTTP " \o ToString(response.status)]

verify_vat_vies(vat_number, response) ==
    IF Len(vat_number.prefix) + Len(vat_number.digits) < 3
      THEN [result |-> NoObject, error |-> "VAT number too short"]
    ELSE IF response.raises = "Timeout"
      THEN [result |-> NoObject, error |-> "VIES API timeout"]
    ELSE IF response.raises # None
      THEN [result |-> NoObject, error |-> "VIES API request failed: " \o response.text]
    ELSE IF response.status = 200
      THEN [result |-> Object([valid |-> response.body = "isValid"]), error |-> None]
    ELSE [result |-> Object([valid |-> FALSE]), error |-> None]

\* "not found" in error.lower(), over the error texts above
MentionsNotFound(error) ==
    error \in {"SIRET not found in registry",
               "SIREN not found in registry",
               "API request failed: Tunnel connection failed: 404 Not Found",
               "VIES API request failed: Tunnel connection failed: 404 Not Found"}

SEVERITY_POINTS(sev) ==
    CASE sev = "low" -> 5
      [] sev = "medium" -> 15
      [] sev = "high" -> 30
      [] sev = "critical" -> 50

\* ------------------------------------------------------------------ SpecExternal
\* analyze_external as analyze calls it (verify_vat, verify_siret at their
\* defaults, no extracted_company_name), one step per loop iteration, followed
\* by the scoring of the seven earlier results and its own.
EDF_SIREN == <<5, 5, 2, 0, 8, 1, 3, 1, 7>>
EDF_SIRET == EDF_SIREN \o <<6, 6, 5, 2, 2>>
EDF_SIRET_TYPO == EDF_SIREN \o <<6, 6, 5, 2, 3>>
EDF_VAT == [prefix |-> "FR", digits |-> <<0, 3>> \o EDF_SIREN]
EDF_VAT_TYPO == [prefix |-> "FR", digits |-> <<0, 4>> \o EDF_SIREN]
TOTAL_SIREN == <<5, 4, 2, 0, 5, 1, 1, 8, 0>>
TOTAL_SIRET == TOTAL_SIREN \o <<0, 0, 0, 6, 6>>
TOTAL_VAT == [prefix |-> "FR", digits |-> <<5, 9>> \o TOTAL_SIREN]
RCS_SIREN == <<3, 8, 3, 9, 6, 0, 1, 3, 5>>
RCS_SIREN_TYPO == <<3, 8, 3, 9, 6, 0, 1, 3, 6>>
OTHER_SIREN == <<7, 3, 2, 8, 2, 9, 3, 2, 0>>
PATTERN_SIREN == <<5, 5, 2, 1, 0, 0, 5, 5, 4>>
PATTERN_NOT_SIREN == <<1, 2, 3, 4, 5, 6, 7, 8, 9>>

Text(siret_mentions, siren_mentions, pattern_mentions, vat_mentions) ==
    [siret_mentions |-> siret_mentions, siren_mentions |-> siren_mentions,
     pattern_mentions |-> pattern_mentions, vat_mentions |-> vat_mentions]

\* the texts analysed
TextVals ==
    {NoText,
     \* "SIRET: 552 081 317 66522"
     Text(<<EDF_SIRET>>, <<>>, <<EDF_SIREN>>, <<>>),
     \* a mistyped SIRET next to the SIREN of the same company
     Text(<<EDF_SIRET_TYPO>>, <<EDF_SIREN>>, <<>>, <<>>),
     \* a SIRET, and the SIREN of the same company "552 081 317 RCS Paris"
     Text(<<EDF_SIRET>>, <<EDF_SIREN>>, <<EDF_SIREN>>, <<>>),
     \* SIRENs, one mistyped, one written twice
     Text(<<>>, <<RCS_SIREN_TYPO, RCS_SIREN, RCS_SIREN>>, <<RCS_SIREN>>, <<>>),
     \* an unlabelled nine-digit pattern and a phone-like one
     Text(<<>>, <<>>, <<PATTERN_SIREN, PATTERN_NOT_SIREN>>, <<>>),
     \* VAT numbers, one with wrong check digits
     Text(<<>>, <<>>, <<>>, <<EDF_VAT_TYPO, EDF_VAT>>),
     \* an invoice naming supplier and customer in full
     Text(<<EDF_SIRET, TOTAL_SIRET>>, <<RCS_SIREN, OTHER_SIREN, PATTERN_SIREN>>,
          <<PATTERN_SIREN>>, <<EDF_VAT, TOTAL_VAT>>)}

\* the lookups of one analysis whose response is drawn from every response
MaxVariedLookups == 2

AnnuaireResponsesAt(n) ==
    IF n < MaxVariedLookups THEN AnnuaireResponses
    ELSE {HttpResponse(200, "active"), Raises("Timeout", "Read timed out")}

ViesResponsesAt(n) ==
    IF n < MaxVariedLookups THEN ViesResponses
    ELSE {HttpResponse(200, "isValid"), Raises("Timeout", "Read timed out")}

\* the results of the seven modules run before analyze_external, on a clean
\* document: with every module having data to work on, and with next to none
\* (no metadata, no dates, no fonts, no images)
FullDataResults ==
    <<ModuleResult("metadata", <<>>, 100, <<1, 1>>),
      ModuleResult("content", <<>>, 100, <<9, 10>>),
      ModuleResult("visual", <<>>, 100, <<9, 10>>),
      ModuleResult("fonts", <<>>, 100, <<9, 10>>),
      ModuleResult("images", <<>>, 100, <<8, 10>>),
      ModuleResult("structure", <<>>, 100, <<1, 1>>),
      ModuleResult("forensics", <<>>, 100, <<9, 10>>)>>

SparseDataResults ==
    <<ModuleResult("metadata", <<>>, 100, <<3, 10>>),
      ModuleResult("content", <<>>, 100, <<3, 10>>),
      ModuleResult("visual", <<>>, 100, <<7, 10>>),
      ModuleResult("fonts", <<>>, 100, <<3, 10>>),
      ModuleResult("images", <<>>, 100, <<5, 10>>),
      ModuleResult("structure", <<>>, 100, <<1, 1>>),
      ModuleResult("forensics", <<>>, 100, <<3, 10>>)>>

OthersVals == {FullDataResults, SparseDataResults}

Range(f) == {f[i] : i \in DOMAIN f}

\* verified_sirens = {siret[:9] for siret, _, _ in sirets}
verified_sirens(d) == {SubSeq(e[1], 1, 9) : e \in Range(d.sirets)}

\* already_verified = verified_sirens | {s for s, _, _ in sirens}
already_verified(d) == verified_sirens(d) \cup {e[1] : e \in Range(d.sirens)}

Query(kind, id, response, flags) ==
    [kind |-> kind, id |-> id, response |-> response, flags |-> flags]

\* the flags one SIRET or SIREN lookup appends
RegistryFlags(kind, r) ==
    IF r.error # None
      THEN IF MentionsNotFound(r.error)
             THEN <<Flag("critical", "EXTERNAL_" \o kind \o "_NOT_FOUND")>>
             ELSE <<Flag("low", "EXTERNAL_" \o kind \o "_VERIFICATION_FAILED")>>
    ELSE IF r.company_info # NoObject /\ r.company_info[1].status = "closed"
      THEN <<Flag("high", "EXTERNAL_COMPANY_CLOSED")>>
    ELSE <<>>

\* the flags one potential-SIREN lookup appends
PotentialFlags(r) ==
    IF r.error # None /\ MentionsNotFound(r.error)
      THEN <<>>
    ELSE IF r.company_info # NoObject /\ r.company_info[1].status = "closed"
      THEN <<Flag("high", "EXTERNAL_COMPANY_CLOSED")>>
    ELSE <<>>

\* the flags one VAT lookup appends
VatFlags(r) ==
    IF r.error # None
      THEN <<Flag("low", "EXTERNAL_VAT_VERIFICATION_FAILED")>>
    ELSE IF r.result # NoObject /\ ~r.result[1].valid
      THEN <<Flag("critical", "EXTERNAL_VAT_INVALID")>>
    ELSE <<>>

InitExternal ==
    /\ pc = "extract"
    /\ doc \in {[NoDoc EXCEPT !.full_text = t] : t \in TextVals}
    /\ module_results \in OthersVals
    /\ idx = 0
    /\ all_flags = <<>>
    /\ verifications_attempted = 0
    /\ verifications_successful = 0
    /\ queries = <<>>
    /\ result = NoResult
    /\ final_score = -1
    /\ enable_external = TRUE
    /\ file = "pdf"
    /\ exception = "none"
    /\ failed_module = "none"
    /\ CallIdle

\* sirets, sirens, vats, potential_sirens = extract_...(full_text)
ExtractLegalMentions ==
    /\ pc = "extract"
    /\ doc' = [doc EXCEPT !.sirets = extract_siret(doc.full_text),
                          !.sirens = extract_siren(doc.full_text),
                          !.vats = extract_french_vat(doc.full_text),
                          !.potential_sirens = extract_potential_sirens(doc.full_text)]
    /\ pc' = "sirets"
    /\ idx' = 1
    /\ UNCHANGED <<callVars, scoringVars, analyzerVars, all_flags, verifications_attempted,
                   verifications_successful, queries>>

Skip ==
    /\ idx' = idx + 1
    /\ UNCHANGED <<callVars, all_flags, verifications_attempted, verifications_successful,
                   queries>>

\* what one lookup with outcome r and flags fl leaves behind
Lookup(kind, id, response, successful, fl) ==
    /\ idx' = idx + 1
    /\ verifications_attempted' = verifications_attempted + 1
    /\ verifications_successful' =
          verifications_successful + (IF successful THEN 1 ELSE 0)
    /\ all_flags' = all_flags \o fl
    /\ queries' = Append(queries, Query(kind, id, response, fl))

\* one iteration of "for siret, is_checksum_valid, context in sirets"
VerifySiret ==
    /\ pc = "sirets"
    /\ idx <= Len(doc.sirets)
    /\ LET siret == doc.sirets[idx][1]
           is_checksum_valid == doc.sirets[idx][2]
       IN  IF ~is_checksum_valid
             THEN Skip
             ELSE \E response \in AnnuaireResponsesAt(Len(queries)) :
                     LET r == verify_siret_annuaire(response)
                     IN  Lookup("SIRET", siret, response, r.company_info # NoObject,
                                RegistryFlags("SIRET", r))
    /\ UNCHANGED <<callVars, pc, doc, scoringVars, analyzerVars>>

\* one iteration of "for siren, is_checksum_valid, context in sirens"
VerifySiren ==
    /\ pc = "sirens"
    /\ idx <= Len(doc.sirens)
    /\ LET siren == doc.sirens[idx][1]
           is_checksum_valid == doc.sirens[idx][2]
       IN  IF siren \in verified_sirens(doc)
             THEN Skip
           ELSE IF ~is_checksum_valid
             THEN Skip
           ELSE \E response \in AnnuaireResponsesAt(Len(queries)) :
                   LET r == verify_siren_annuaire(response)
                   IN  Lookup("SIREN", siren, response, r.company_info # NoObject,
                              RegistryFlags("SIREN", r))
    /\ UNCHANGED <<callVars, pc, doc, scoringVars, analyzerVars>>

\* one iteration of "for potential_siren, context in potential_sirens"
VerifyPotentialSiren ==
    /\ pc = "potential_sirens"
    /\ idx <= Len(doc.potential_sirens)
    /\ LET potential_siren == doc.potential_sirens[idx]
       IN  IF potential_siren \in already_verified(doc)
             THEN Skip
             ELSE \E response \in AnnuaireResponsesAt(Len(queries)) :
                     LET r == verify_siren_annuaire(response)
                     IN  Lookup("POTENTIAL_SIREN", potential_siren, response,
                                ~(r.error # None /\ MentionsNotFound(r.error))
                                    /\ r.company_info # NoObject,
                                PotentialFlags(r))
    /\ UNCHANGED <<callVars, pc, doc, scoringVars, analyzerVars>>

\* one iteration of "for vat, is_checksum_valid, context in vats"
VerifyVat ==
    /\ pc = "vats"
    /\ idx <= Len(doc.vats)
    /\ LET vat == doc.vats[idx][1]
           is_checksum_valid == doc.vats[idx][2]
       IN  IF ~is_checksum_valid
             THEN Skip
             ELSE \E response \in ViesResponsesAt(Len(queries)) :
                     LET r == verify_vat_vies(vat, response)
                     IN  Lookup("VAT", vat, response,
                                r.error = None /\ r.result # NoObject /\ r.result[1].valid,
                                VatFlags(r))
    /\ UNCHANGED <<callVars, pc, doc, scoringVars, analyzerVars>>

\* a loop is exhausted: control falls through to the next statement
EndOfLoop ==
    /\ \/ pc = "sirets" /\ idx > Len(doc.sirets) /\ pc' = "sirens"
       \/ pc = "sirens" /\ idx > Len(doc.sirens) /\ pc' = "potential_sirens"
       \/ pc = "potential_sirens" /\ idx > Len(doc.potential_sirens) /\ pc' = "vats"
       \/ pc = "vats" /\ idx > Len(doc.vats) /\ pc' = "score"
    /\ idx' = 1
    /\ UNCHANGED <<callVars, doc, scoringVars, analyzerVars, all_flags,
                   verifications_attempted, verifications_successful, queries>>

RECURSIVE Penalty(_, _)
\* the points the first k flags take off
Penalty(flags, k) ==
    IF k = 0 THEN 0 ELSE Penalty(flags, k - 1) + SEVERITY_POINTS(flags[k].severity)

\* the ModuleResult analyze_external returns
ExternalResult(flags, attempted, successful) ==
    LET score == Max(0, 100 - Penalty(flags, Len(flags)))
        confidence ==
            IF attempted = 0 THEN <<1, 10>>
            ELSE IF successful = attempted THEN <<1, 1>>
            ELSE <<attempted + successful, 2 * attempted>>
    IN  ModuleResult("external", flags, score, confidence)

\* "Calculate score", "Calculate confidence", return; analyze appends the
\* result to module_results
ReturnExternal ==
    /\ pc = "score"
    /\ module_results' = Append(module_results,
          ExternalResult(all_flags, verifications_attempted, verifications_successful))
    /\ pc' = "collect"
    /\ UNCHANGED <<callVars, result, final_score, analyzerVars, externalVars>>

NextExternal ==
    \/ ExtractLegalMentions
    \/ VerifySiret
    \/ VerifySiren
    \/ VerifyPotentialSiren
    \/ VerifyVat
    \/ EndOfLoop
    \/ ReturnExternal
    \/ CreateAnalysisResult

SpecExternal == InitExternal /\ [][NextExternal]_vars

\* ------------------------------------------------------------------ SpecModule
\* One call of an analysis module: the checks add their flags one after the
\* other, then the module computes its score and returns.
MaxModuleFlags == 3

\* the modules whose code computes a score
ScoringModules == {"content", "visual", "fonts", "images", "forensics", "external"}

\* the modules that return early when there is nothing to analyse (no text,
\* no fonts, no image large enough)
EarlyReturnConfidence(module) ==
    CASE module = "content" -> <<1, 10>>
      [] module = "fonts" -> <<3, 10>>
      [] module = "forensics" -> <<3, 10>>

\* the severities a module's checks emit
ModuleSeverities(module) ==
    IF module = "forensics" THEN {"high", "medium"} ELSE SeverityLevel

ModuleFlagCode(module, sev) ==
    CASE module = "content" -> "CONTENT_FLAG"
      [] module = "visual" -> "VISUAL_FLAG"
      [] module = "fonts" -> "FONTS_FLAG"
      [] module = "images" -> "IMAGES_FLAG"
      [] module = "forensics" ->
            (IF sev = "high" THEN "FORENSICS_ELA_MAJOR_EDIT"
                             ELSE "FORENSICS_ELA_MINOR_EDIT")
      [] module = "external" -> "EXTERNAL_FLAG"

\* the confidences a module returns after its checks
ModuleConfidences(module) ==
    CASE module = "content" -> {<<9, 10>>, <<7, 10>>, <<5, 10>>, <<3, 10>>}
      [] module = "visual" -> {<<9, 10>>, <<7, 10>>}
      [] module = "fonts" -> {<<9, 10>>, <<7, 10>>}
      [] module = "images" -> {<<8, 10>>, <<5, 10>>}
      [] module = "forensics" -> {<<6, 10>>, <<9, 10>>}
      [] module = "external" -> {<<1, 10>>, <<1, 2>>, <<1, 1>>}

RECURSIVE ForensicsPenalty(_, _)
\* the if/elif of analyze_forensics over the first k flags
ForensicsPenalty(flags, k) ==
    IF k = 0 THEN 0
    ELSE ForensicsPenalty(flags, k - 1)
         + (IF flags[k].severity = "high" THEN 30
            ELSE IF flags[k].severity = "medium" THEN 15
            ELSE 0)

\* "Calculate score" without the floor
ModuleScore_NoFloor(module, flags) ==
    IF module = "forensics"
      THEN 100 - ForensicsPenalty(flags, Len(flags))
      ELSE 100 - Penalty(flags, Len(flags))

\* "Calculate score": score = 100; score -= points per flag; max(0, score)
ModuleScore(module, flags) ==
    IF module = "forensics"
      THEN Max(0, 100 - ForensicsPenalty(flags, Len(flags)))
      ELSE Max(0, 100 - Penalty(flags, Len(flags)))

InitModule ==
    /\ pc = "checks"
    /\ fn \in ScoringModules
    /\ arg \in {"nothing_to_analyse", "data"}
    /\ ret = "none"
    /\ handle = "none"
    /\ all_flags = <<>>
    /\ module_results = <<>>
    /\ result = NoResult
    /\ final_score = -1
    /\ AnalyzerIdle
    /\ doc = NoDoc
    /\ idx = 0
    /\ verifications_attempted = 0
    /\ verifications_successful = 0
    /\ queries = <<>>

\* the early "return ModuleResult(flags=[], score=100, confidence=...)"
EarlyReturn ==
    /\ pc = "checks"
    /\ arg = "nothing_to_analyse"
    /\ fn \in {"content", "fonts", "forensics"}
    /\ ret' = ModuleResult(fn, <<>>, 100, EarlyReturnConfidence(fn))
    /\ pc' = "done"
    /\ UNCHANGED <<fn, arg, handle, scoringVars, analyzerVars, externalVars>>

\* all_flags.extend(check_...(...)), one flag at a time
AddFlag ==
    /\ pc = "checks"
    /\ ~(arg = "nothing_to_analyse" /\ fn \in {"content", "fonts", "forensics"})
    /\ Len(all_flags) < MaxModuleFlags
    /\ \E sev \in ModuleSeverities(fn) :
          all_flags' = Append(all_flags, Flag(sev, ModuleFlagCode(fn, sev)))
    /\ UNCHANGED <<pc, callVars, scoringVars, analyzerVars, doc, idx,
                   verifications_attempted, verifications_successful, queries>>

\* "Calculate score", "Calculate confidence", return ModuleResult(...)
ReturnModuleResult ==
    /\ pc = "checks"
    /\ ~(arg = "nothing_to_analyse" /\ fn \in {"content", "fonts", "forensics"})
    /\ \E confidence \in ModuleConfidences(fn) :
          ret' = ModuleResult(fn, all_flags, ModuleScore(fn, all_flags), confidence)
    /\ pc' = "done"
    /\ UNCHANGED <<fn, arg, handle, scoringVars, analyzerVars, externalVars>>

NextModule == EarlyReturn \/ AddFlag \/ ReturnModuleResult

SpecModule == InitModule /\ [][NextModule]_vars

\* ------------------------------------------------------------------ function calls
\* One call f(arg) of a function that touches nothing but its argument.
CallOf(f, inputs) ==
    /\ pc = "call"
    /\ fn = f
    /\ arg \in inputs
    /\ ret = "none"
    /\ handle = "none"
    /\ module_results = <<>>
    /\ result = NoResult
    /\ final_score = -1
    /\ AnalyzerIdle
    /\ ExternalIdle

Returns(value) ==
    /\ pc = "call"
    /\ ret' = value
    /\ pc' = "done"
    /\ UNCHANGED <<fn, arg, handle, scoringVars, analyzerVars, externalVars>>

\* ------------------------------------------------------------------ SpecRisk
\* how far below 0 and above 100 the scores handed to get_risk_level go
MaxOutOfRange == 20

InitRisk == CallOf("get_risk_level", (0 - MaxOutOfRange)..(100 + MaxOutOfRange))

GetRiskLevel == fn = "get_risk_level" /\ Returns(get_risk_level(arg))

NextRisk == GetRiskLevel

SpecRisk == InitRisk /\ [][NextRisk]_vars

\* ------------------------------------------------------------------ SpecCollect
\* collect_all_flags applied to lists of results whose flags can be told
\* apart within one severity.
MaxCollectFlags == 3

CollectFlagVals ==
    {Flag(sev, code) : sev \in SeverityLevel, code \in {"FIRST_CODE", "SECOND_CODE"}}

\* the k results that hold the flags fs, cut after the positions c[1] <= ...
\* <= c[k-1]
CutIntoModules(fs, k, c) ==
    LET CutAt(i) == IF i = 0 THEN 0 ELSE IF i = k THEN Len(fs) ELSE c[i]
    IN  [i \in 1..k |->
            ModuleResult(MODULE_ORDER[i], SubSeq(fs, CutAt(i - 1) + 1, CutAt(i)),
                         100, <<1, 1>>)]

\* the ways to cut fs into k consecutive pieces
Cuts(fs, k) ==
    {c \in [1..(k - 1) -> 0..Len(fs)] : \A i \in 1..(k - 2) : c[i] <= c[i + 1]}

\* every list of up to MaxModules results with up to MaxCollectFlags flags in
\* total
InitCollect ==
    \E k \in 0..MaxModules :
        \E fs \in SeqsUpTo(CollectFlagVals, IF k = 0 THEN 0 ELSE MaxCollectFlags) :
            \E c \in Cuts(fs, k) :
                CallOf("collect_all_flags", {CutIntoModules(fs, k, c)})

CollectAllFlags == fn = "collect_all_flags" /\ Returns(collect_all_flags(arg))

NextCollect == CollectAllFlags

SpecCollect == InitCollect /\ [][NextCollect]_vars

\* ------------------------------------------------------------------ SpecHandles
\* The functions that open the PDF with fitz.open themselves, one step per
\* statement that can raise.
HandleFunctions == {"scan_pdf_for_2d_doc", "check_paste_artifacts",
                    "extract_images_as_arrays"}

\* the most pages a document has
MaxPages == 3

\* a document: whether fitz.open succeeds, its pages, the page on which a
\* fitz call raises (0: none), whether the first page shows a DataMatrix
\* candidate and whether decoding it raises
HandleInputs ==
    {d \in [openable : BOOLEAN, pages : 1..MaxPages, bad_page : 0..MaxPages,
            candidate : BOOLEAN, bad_decode : BOOLEAN] : d.bad_page <= d.pages}

InitHandles ==
    /\ pc = "open"
    /\ fn \in HandleFunctions
    /\ arg \in HandleInputs
    /\ ret = "none"
    /\ handle = "none"
    /\ module_results = <<>>
    /\ result = NoResult
    /\ final_score = -1
    /\ AnalyzerIdle
    /\ ExternalIdle

HandleFrame ==
    UNCHANGED <<fn, arg, scoringVars, enable_external, file, failed_module, doc,
                all_flags, verifications_attempted, verifications_successful, queries>>

\* doc = fitz.open(pdf_path); when it raises, each of the three functions
\* catches the exception and returns its empty list
OpenDocument ==
    /\ pc = "open"
    /\ IF arg.openable
         THEN /\ handle' = "open"
              /\ pc' = IF fn = "scan_pdf_for_2d_doc" THEN "prefilter" ELSE "pages"
              /\ ret' = ret
         ELSE /\ handle' = handle
              /\ pc' = "done"
              /\ ret' = <<>>
    /\ UNCHANGED <<idx, exception>>
    /\ HandleFrame

\* scan_pdf_for_2d_doc, phase 1: render page 1 at low resolution and look for
\* candidates; an exception lands in the except clause, which logs and falls
\* through to "return results"
Prefilter ==
    /\ pc = "prefilter"
    /\ IF arg.bad_page = 1
         THEN /\ handle' = handle
              /\ ret' = <<>>
              /\ pc' = "done"
         ELSE IF ~arg.candidate
         THEN /\ handle' = "closed"
              /\ ret' = <<>>
              /\ pc' = "done"
         ELSE /\ handle' = handle
              /\ ret' = ret
              /\ pc' = "decode"
    /\ UNCHANGED <<idx, exception>>
    /\ HandleFrame

\* scan_pdf_for_2d_doc, phase 2: decode the candidate quadrants, doc.close()
Decode ==
    /\ pc = "decode"
    /\ IF arg.bad_decode
         THEN /\ handle' = handle
              /\ ret' = <<>>
         ELSE /\ handle' = "closed"
              /\ ret' \in {<<>>, <<"2D-DOC">>}
    /\ pc' = "done"
    /\ UNCHANGED <<idx, exception>>
    /\ HandleFrame

\* check_paste_artifacts and extract_images_as_arrays: one turn of
\* "for page_num in range(len(doc))"; the fitz calls on the page are outside
\* any try, so an exception leaves the function
ScanPage ==
    /\ pc = "pages"
    /\ idx < arg.pages
    /\ IF arg.bad_page = idx + 1
         THEN /\ exception' = "Exception"
              /\ pc' = "raised"
              /\ idx' = idx
         ELSE /\ exception' = exception
              /\ pc' = pc
              /\ idx' = idx + 1
    /\ UNCHANGED <<ret, handle>>
    /\ HandleFrame

\* after the loop: doc.close(); return flags (or images)
CloseAndReturn ==
    /\ pc = "pages"
    /\ idx = arg.pages
    /\ handle' = "closed"
    /\ ret' = <<>>
    /\ pc' = "done"
    /\ UNCHANGED <<idx, exception>>
    /\ HandleFrame

NextHandles ==
    \/ OpenDocument
    \/ Prefilter
    \/ Decode
    \/ ScanPage
    \/ CloseAndReturn

SpecHandles == InitHandles /\ [][NextHandles]_vars

\* ------------------------------------------------------------------ SpecLuhn
\* validate_siret_checksum and validate_siren_checksum applied to digit
\* strings that differ from a registered identifier in their last digits.
MaxVariedDigits == 3

\* base with its last n digits replaced by every choice of digits
LastDigitsVaried(base, n) ==
    {[i \in 1..Len(base) |->
         IF i > Len(base) - n THEN t[i - (Len(base) - n)] ELSE base[i]] :
        t \in [1..n -> 0..9]}

InitLuhn ==
    \/ CallOf("validate_siret_checksum", LastDigitsVaried(EDF_SIRET, MaxVariedDigits))
    \/ CallOf("validate_siren_checksum", LastDigitsVaried(EDF_SIREN, MaxVariedDigits))

ValidateSiretChecksum ==
    fn = "validate_siret_checksum" /\ Returns(validate_siret_checksum(arg))

ValidateSirenChecksum ==
    fn = "validate_siren_checksum" /\ Returns(validate_siren_checksum(arg))

NextLuhn == ValidateSiretChecksum \/ ValidateSirenChecksum

SpecLuhn == InitLuhn /\ [][NextLuhn]_vars

\* ------------------------------------------------------------------ SpecVat
\* validate_french_vat applied to "FR", every pair of check digits and the
\* SIRENs that differ from a registered one in their last digits.
VatInputs(n) ==
    {[prefix |-> "FR", digits |-> dd \o siren] :
        dd \in [1..2 -> 0..9],
        siren \in LastDigitsVaried(EDF_SIREN, n) \cup LastDigitsVaried(TOTAL_SIREN, n)}

InitVat == CallOf("validate_french_vat", VatInputs(MaxVariedDigits - 1))

ValidateFrenchVat == fn = "validate_french_vat" /\ Returns(validate_french_vat(arg))

NextVat == ValidateFrenchVat

SpecVat == InitVat /\ [][NextVat]_vars

\* ------------------------------------------------------------------ twod_doc.py
\* A date is [year, month, day]; a hex string is its sequence of characters.
DATE_REFERENCE == [year |-> 2000, month |-> 1, day |-> 1]

HexAlphabet == <<"0", "1", "2", "3", "4", "5", "6", "7",
                 "8", "9", "A", "B", "C", "D", "E", "F">>

IsHexChar(c) == \E i \in DOMAIN HexAlphabet : HexAlphabet[i] = c

\* int(c, 16) for one character
HexCharValue(c) == (CHOOSE i \in DOMAIN HexAlphabet : HexAlphabet[i] = c) - 1

RECURSIVE IntBase16(_, _)
\* int(hex_str, 16) over the first k characters
IntBase16(hex_str, k) ==
    IF k = 0 THEN 0 ELSE IntBase16(hex_str, k - 1) * 16 + HexCharValue(hex_str[k])

DAYS_IN_MONTH == <<31, 28, 31, 30, 31, 30, 31, 31, 30, 31, 30, 31>>
DAYS_BEFORE_MONTH == <<0, 31, 59, 90, 120, 151, 181, 212, 243, 273, 304, 334>>

\* date.toordinal(): days before the year, days before the month, the day
ymd2ord(d) ==
    LET y == d.year - 1
        leap == d.year % 4 = 0 /\ (d.year % 100 # 0 \/ d.year % 400 = 0)
    IN  y * 365 + y \div 4 - y \div 100 + y \div 400
        + DAYS_BEFORE_MONTH[d.month] + (IF d.month > 2 /\ leap THEN 1 ELSE 0)
        + d.day

\* date.fromordinal(): the 400-, 100-, 4- and 1-year cycles, then the month
\* estimated from the day of the year and corrected
ord2ymd(ordinal) ==
    LET n0 == ordinal - 1
        n400 == n0 \div 146097
        r400 == n0 % 146097
        n100 == r400 \div 36524
        r100 == r400 % 36524
        n4 == r100 \div 1461
        r4 == r100 % 1461
        n1 == r4 \div 365
        n == r4 % 365
        year == n400 * 400 + 1 + n100 * 100 + n4 * 4 + n1
        leapyear == n1 = 3 /\ (n4 # 24 \/ n100 = 3)
        guess == (n + 50) \div 32
        preceding == DAYS_BEFORE_MONTH[guess] + (IF guess > 2 /\ leapyear THEN 1 ELSE 0)
        month == IF preceding > n THEN guess - 1 ELSE guess
        before == IF preceding > n
                  THEN preceding - (DAYS_IN_MONTH[month]
                                    + (IF month = 2 /\ leapyear THEN 1 ELSE 0))
                  ELSE preceding
    IN  IF n1 = 4 \/ n100 = 4
        THEN [year |-> year - 1, month |-> 12, day |-> 31]
        ELSE [year |-> year, month |-> month, day |-> n - before + 1]

\* the conversion without the "no date" value
hex_date_to_date_NoAbsent(hex_str) ==
    IF \E i \in DOMAIN hex_str : ~IsHexChar(hex_str[i])
    THEN NoObject
    ELSE Object(ord2ymd(ymd2ord(DATE_REFERENCE) + IntBase16(hex_str, Len(hex_str))))

\* None for "FFFF" and for what int(hex_str, 16) rejects, else
\* DATE_REFERENCE + timedelta(days=int(hex_str, 16))
hex_date_to_date(hex_str) ==
    IF hex_str = <<"F", "F", "F", "F">>
    THEN NoObject
    ELSE IF \E i \in DOMAIN hex_str : ~IsHexChar(hex_str[i])
    THEN NoObject
    ELSE Object(ord2ymd(ymd2ord(DATE_REFERENCE) + IntBase16(hex_str, Len(hex_str))))

\* ------------------------------------------------------------------ SpecHexDate
\* hex_date_to_date applied to every string of four characters that are
\* uppercase hexadecimal digits or the letter after them.
HexDateInputs == [1..4 -> {HexAlphabet[i] : i \in DOMAIN HexAlphabet} \cup {"G"}]

InitHexDate == CallOf("hex_date_to_date", HexDateInputs)

HexDateToDate == fn = "hex_date_to_date" /\ Returns(hex_date_to_date(arg))

NextHexDate == HexDateToDate

SpecHexDate == InitHexDate /\ [][NextHexDate]_vars

\* ------------------------------------------------------------------ twod_doc.py, header
\* A string is the sequence of its characters; s[a:b] is Slice(s, a, b).
Slice(s, a, b) == SubSeq(s, a + 1, Min(b, Len(s)))

HEADER_MARKER == <<"D", "C">>

\* a table that gives version 03 the size of versions 01 and 02
HEADER_SIZES_V3Short ==
    (<<"0", "1">> :> 22) @@ (<<"0", "2">> :> 22) @@ (<<"0", "3">> :> 22)
        @@ (<<"0", "4">> :> 26)

HEADER_SIZES ==
    (<<"0", "1">> :> 22) @@ (<<"0", "2">> :> 22) @@ (<<"0", "3">> :> 24)
        @@ (<<"0", "4">> :> 26)

TwoDocHeader(raw, version, ca_id, cert_id, emission_date, signature_date, document_type, perimeter, country) ==
    [raw |-> raw, version |-> version, ca_id |-> ca_id, cert_id |-> cert_id,
     emission_date |-> emission_date, signature_date |-> signature_date,
     document_type |-> document_type, perimeter |-> perimeter, country |-> country]

\* a parser that reads the certificate id where the CA id stands
parse_header_CertFromCaId(raw_data) ==
    IF Len(raw_data) < 4 THEN NoObject
    ELSE IF Slice(raw_data, 0, 2) # HEADER_MARKER THEN NoObject
    ELSE LET version == Slice(raw_data, 2, 4)
         IN  IF version \notin DOMAIN HEADER_SIZES THEN NoObject
             ELSE IF Len(raw_data) < HEADER_SIZES[version] THEN NoObject
             ELSE Object(TwoDocHeader(
                     Slice(raw_data, 0, HEADER_SIZES[version]),
                     version,
                     Slice(raw_data, 4, 8),
                     Slice(raw_data, 4, 8),
                     hex_date_to_date(Slice(raw_data, 12, 16)),
                     hex_date_to_date(Slice(raw_data, 16, 20)),
                     Slice(raw_data, 20, 22),
                     IF version \in {<<"0", "3">>, <<"0", "4">>}
                         THEN Object(Slice(raw_data, 22, 24)) ELSE NoObject,
                     IF version = <<"0", "4">>
                         THEN Object(Slice(raw_data, 24, 26)) ELSE NoObject))

\* None, or the TwoDocHeader read at the fixed positions
parse_header(raw_data) ==
    IF Len(raw_data) < 4 THEN NoObject
    ELSE IF Slice(raw_data, 0, 2) # HEADER_MARKER THEN NoObject
    ELSE LET version == Slice(raw_data, 2, 4)
         IN  IF version \notin DOMAIN HEADER_SIZES THEN NoObject
             ELSE IF Len(raw_data) < HEADER_SIZES[version] THEN NoObject
             ELSE Object(TwoDocHeader(
                     Slice(raw_data, 0, HEADER_SIZES[version]),
                     version,
                     Slice(raw_data, 4, 8),
                     Slice(raw_data, 8, 12),
                     hex_date_to_date(Slice(raw_data, 12, 16)),
                     hex_date_to_date(Slice(raw_data, 16, 20)),
                     Slice(raw_data, 20, 22),
                     IF version \in {<<"0", "3">>, <<"0", "4">>}
                         THEN Object(Slice(raw_data, 22, 24)) ELSE NoObject,
                     IF version = <<"0", "4">>
                         THEN Object(Slice(raw_data, 24, 26)) ELSE NoObject))

\* ------------------------------------------------------------------ SpecHeader
\* parse_header applied to barcode data of every version, cut at every length
\* around the header sizes, and to data with another marker or version.
MaxTrailing == 1

HeaderParts ==
    [marker : {<<"D", "C">>},
     version : {<<"0", "1">>, <<"0", "2">>, <<"0", "3">>, <<"0", "4">>},
     ca_id : {<<"F", "R", "0", "0">>, <<"F", "R", "0", "3">>},
     cert_id : {<<"0", "0", "0", "1">>},
     emission : {<<"0", "0", "0", "0">>, <<"2", "2", "4", "C">>,
                 <<"F", "F", "F", "E">>, <<"F", "F", "F", "F">>},
     signature : {<<"2", "2", "4", "C">>, <<"F", "F", "F", "F">>},
     document_type : {<<"0", "1">>, <<"0", "4">>},
     perimeter : {<<"0", "1">>, <<"0", "2">>},
     country : {<<"F", "R">>, <<"D", "E">>}]
    \cup
    [marker : {<<"D", "C">>, <<"D", "X">>, <<"C", "D">>},
     version : {<<"0", "0">>, <<"0", "1">>, <<"0", "5">>, <<"4", "0">>, <<" ", "1">>},
     ca_id : {<<"F", "R", "0", "0">>},
     cert_id : {<<"0", "0", "0", "1">>},
     emission : {<<"2", "2", "4", "C">>},
     signature : {<<"2", "2", "4", "C">>},
     document_type : {<<"0", "1">>},
     perimeter : {<<"0", "1">>},
     country : {<<"F", "R">>}]

\* the characters of the parts in the order of the header, then DI 10
HeaderText(h) ==
    h.marker \o h.version \o h.ca_id \o h.cert_id \o h.emission \o h.signature
        \o h.document_type \o h.perimeter \o h.country \o <<"1", "0">>

InitHeader ==
    \E h \in HeaderParts :
        \E n \in (0..4) \cup (20..(26 + MaxTrailing)) :
            CallOf("parse_header", {Slice(HeaderText(h), 0, n)})

ParseHeader == fn = "parse_header" /\ Returns(parse_header(arg))

NextHeader == ParseHeader

SpecHeader == InitHeader /\ [][NextHeader]_vars

\* ------------------------------------------------------------------ twod_doc.py, message
GS == "<GS>"
RS == "<RS>"
US == "<US>"

\* the characters of the message zones and signatures examined
MessageAlphabet == {"6", "8", "G", GS, RS, US}

\* the entries of the registry whose DI can be written with these
\* characters: (name, fixed_length), fixed_length None for a variable field
DI_REGISTRY ==
    (<<"6", "6">> :> [name |-> <<"Numéro pièce d'identité">>, fixed_length |-> NoObject])
    @@ (<<"6", "8">> :> [name |-> <<"Genre">>, fixed_length |-> Object(1)])
    @@ (<<"6", "G">> :> [name |-> <<"Nom">>, fixed_length |-> NoObject])

get_di_info(di) ==
    IF di \in DOMAIN DI_REGISTRY
    THEN DI_REGISTRY[di]
    ELSE [name |-> <<"Champ inconnu (">> \o di \o <<")">>, fixed_length |-> NoObject]

TwoDocField(di, value, name) == [di |-> di, value |-> value, name |-> name]

\* the tests at the top of "while pos < data_len" that leave the loop
LoopEnds(message_data, pos) ==
    IF pos >= Len(message_data) THEN TRUE
    ELSE IF message_data[pos + 1] = US THEN TRUE
    ELSE pos + 2 > Len(message_data)

\* "while pos < data_len and message_data[pos] not in (GS, RS, US): pos += 1"
ValueEnd(message_data, from) ==
    LET Stops(i) == IF i = Len(message_data) THEN TRUE
                    ELSE message_data[i + 1] \in {GS, RS, US}
    IN  CHOOSE i \in from..Len(message_data) :
            Stops(i) /\ \A j \in from..(i - 1) : ~Stops(j)

\* a loop body that takes one character for the DI position
ReadField_ShortStep(message_data, pos) ==
    LET data_len == Len(message_data)
        di == Slice(message_data, pos, pos + 2)
        after_di == pos + 1
        info == get_di_info(di)
    IN  IF info.fixed_length # NoObject
        THEN IF after_di + info.fixed_length[1] > data_len
             THEN [field |-> TwoDocField(di, Slice(message_data, after_di, data_len),
                                         info.name),
                   pos |-> data_len]
             ELSE [field |-> TwoDocField(di, Slice(message_data, after_di,
                                                   after_di + info.fixed_length[1]),
                                         info.name),
                   pos |-> after_di + info.fixed_length[1]]
        ELSE LET stop == ValueEnd(message_data, after_di)
             IN  [field |-> TwoDocField(di, Slice(message_data, after_di, stop), info.name),
                  pos |-> IF stop < data_len /\ message_data[stop + 1] \in {GS, RS}
                          THEN stop + 1 ELSE stop]

\* one turn of the loop that does not leave it: the field read at pos and
\* the position after it
ReadField(message_data, pos) ==
    LET data_len == Len(message_data)
        di == Slice(message_data, pos, pos + 2)
        after_di == pos + 2
        info == get_di_info(di)
    IN  IF info.fixed_length # NoObject
        THEN IF after_di + info.fixed_length[1] > data_len
             THEN [field |-> TwoDocField(di, Slice(message_data, after_di, data_len),
                                         info.name),
                   pos |-> data_len]
             ELSE [field |-> TwoDocField(di, Slice(message_data, after_di,
                                                   after_di + info.fixed_length[1]),
                                         info.name),
                   pos |-> after_di + info.fixed_length[1]]
        ELSE LET stop == ValueEnd(message_data, after_di)
             IN  [field |-> TwoDocField(di, Slice(message_data, after_di, stop), info.name),
                  pos |-> IF stop < data_len /\ message_data[stop + 1] \in {GS, RS}
                          THEN stop + 1 ELSE stop]

RECURSIVE ParseFrom(_, _, _)
\* the loop from position pos on, fields being the list built so far
ParseFrom(message_data, pos, fields) ==
    IF LoopEnds(message_data, pos) THEN fields
    ELSE LET r == ReadField(message_data, pos)
         IN  ParseFrom(message_data, r.pos, Append(fields, r.field))

parse_message(message_data) == ParseFrom(message_data, 0, <<>>)

\* ------------------------------------------------------------------ SpecMessage
\* parse_message, one step per turn of its loop; idx is pos and ret is the
\* list fields, which is what the function returns.
MaxMessageLen == 5

InitMessage ==
    /\ pc = "loop"
    /\ fn = "parse_message"
    /\ arg \in SeqsUpTo(MessageAlphabet, MaxMessageLen)
    /\ ret = <<>>
    /\ handle = "none"
    /\ module_results = <<>>
    /\ result = NoResult
    /\ final_score = -1
    /\ AnalyzerIdle
    /\ ExternalIdle

MessageFrame ==
    UNCHANGED <<fn, arg, handle, scoringVars, analyzerVars, doc, all_flags,
                verifications_attempted, verifications_successful, queries>>

\* a turn of the loop: fields.append(TwoDocField(...))
ParseField ==
    /\ pc = "loop"
    /\ ~LoopEnds(arg, idx)
    /\ LET r == ReadField(arg, idx)
       IN  /\ ret' = Append(ret, r.field)
           /\ idx' = r.pos
    /\ pc' = pc
    /\ MessageFrame

\* the loop is left: return fields
ReturnFields ==
    /\ pc = "loop"
    /\ LoopEnds(arg, idx)
    /\ pc' = "done"
    /\ UNCHANGED <<ret, idx>>
    /\ MessageFrame

NextMessage == ParseField \/ ReturnFields

SpecMessage == InitMessage /\ [][NextMessage]_vars

\* the interpreter keeps executing the loop
SpecMessageFair == SpecMessage /\ WF_vars(NextMessage)

\* ------------------------------------------------------------------ twod_doc.py, barcode
\* s.find(c, start): the first 0-based position from start on where c stands
Find(s, c, start) ==
    LET at == {i \in start..(Len(s) - 1) : s[i + 1] = c}
    IN  IF at = {} THEN -1 ELSE CHOOSE i \in at : \A j \in at : i <= j

TwoDocData(header, fields, signature, raw_message) ==
    [header |-> header, fields |-> fields, signature |-> signature,
     raw_message |-> raw_message]

\* a parser that ends the message at the last US
parse_twod_doc_LastUS(raw_data) ==
    LET header == parse_header(raw_data)
    IN  IF header = NoObject THEN NoObject
        ELSE LET message_start == HEADER_SIZES[header[1].version]
                 at == {i \in message_start..(Len(raw_data) - 1) : raw_data[i + 1] = US}
                 message_end == IF at = {} THEN -1
                                ELSE CHOOSE i \in at : \A j \in at : i >= j
                 message_data == IF message_end = -1
                                 THEN Slice(raw_data, message_start, Len(raw_data))
                                 ELSE Slice(raw_data, message_start, message_end)
                 signature_data == IF message_end = -1 THEN <<>>
                                   ELSE Slice(raw_data, message_end + 1, Len(raw_data))
             IN  Object(TwoDocData(header[1], parse_message(message_data),
                                   IF signature_data # <<>>
                                       THEN Object(signature_data) ELSE NoObject,
                                   message_data))

\* None when the header does not parse, else the header, the fields of the
\* message zone and the signature; "signature_data.encode() if
\* signature_data else None" gives None for no US and for nothing after it
parse_twod_doc(raw_data) ==
    LET header == parse_header(raw_data)
    IN  IF header = NoObject THEN NoObject
        ELSE LET message_start == HEADER_SIZES[header[1].version]
                 message_end == Find(raw_data, US, message_start)
                 message_data == IF message_end = -1
                                 THEN Slice(raw_data, message_start, Len(raw_data))
                                 ELSE Slice(raw_data, message_start, message_end)
                 signature_data == IF message_end = -1 THEN <<>>
                                   ELSE Slice(raw_data, message_end + 1, Len(raw_data))
             IN  Object(TwoDocData(header[1], parse_message(message_data),
                                   IF signature_data # <<>>
                                       THEN Object(signature_data) ELSE NoObject,
                                   message_data))

\* ------------------------------------------------------------------ SpecTwoDoc
\* parse_twod_doc applied to a header followed by every message zone and
\* signature of up to MaxMessageLen characters.
BarcodeHeaders ==
    {<<"D", "C", "0", "1", "F", "R", "0", "0", "0", "0", "0", "1",
       "2", "2", "4", "C", "2", "2", "4", "C", "0", "1">>,
     <<"D", "C", "0", "3", "F", "R", US, "0", "0", "0", "0", "1",
       "2", "2", "4", "C", "F", "F", "F", "F", "0", "1", "0", "1">>,
     <<"D", "C", "0", "5", "F", "R", "0", "0", "0", "0", "0", "1",
       "2", "2", "4", "C", "2", "2", "4", "C", "0", "1">>}

InitTwoDoc ==
    \E h \in BarcodeHeaders :
        \E t \in SeqsUpTo(MessageAlphabet, MaxMessageLen) :
            CallOf("parse_twod_doc", {h \o t})

ParseTwoDoc == fn = "parse_twod_doc" /\ Returns(parse_twod_doc(arg))

NextTwoDoc == ParseTwoDoc

SpecTwoDoc == InitTwoDoc /\ [][NextTwoDoc]_vars

\* ------------------------------------------------------------------ visual.py
\* A string is the sequence of its characters.
StartsWith(s, prefix) ==
    Len(s) >= Len(prefix) /\ SubSeq(s, 1, Len(prefix)) = prefix

EndsWith(s, suffix) ==
    Len(s) >= Len(suffix) /\ SubSeq(s, Len(s) - Len(suffix) + 1, Len(s)) = suffix

\* "sub in s"
Contains(s, sub) ==
    \E i \in 1..(Len(s) - Len(sub) + 1) : SubSeq(s, i, i + Len(sub) - 1) = sub

UpperLetters == <<"A", "B", "C", "D", "E", "F", "G", "H", "I", "J", "K", "L", "M", "N", "O", "P", "Q", "R", "S", "T", "U", "V", "W", "X", "Y", "Z">>
LowerLetters == <<"a", "b", "c", "d", "e", "f", "g", "h", "i", "j", "k", "l", "m", "n", "o", "p", "q", "r", "s", "t", "u", "v", "w", "x", "y", "z">>

\* str.lower() on the characters that occur here
Lower(s) ==
    [i \in DOMAIN s |->
        IF \E k \in DOMAIN UpperLetters : UpperLetters[k] = s[i]
        THEN LowerLetters[CHOOSE k \in DOMAIN UpperLetters : UpperLetters[k] = s[i]]
        ELSE s[i]]

\* urlparse(url).netloc for a URL with a scheme: what stands between "//"
\* and the next "/", "?" or "#"
Netloc(url) ==
    LET marks == {i \in DOMAIN url : i < Len(url) /\ url[i] = "/" /\ url[i + 1] = "/"}
    IN  IF marks = {} THEN <<>>
        ELSE LET start == (CHOOSE i \in marks : \A j \in marks : i <= j) + 2
                 ends == {i \in start..Len(url) : url[i] \in {"/", "?", "#"}}
                 stop == IF ends = {} THEN Len(url) + 1
                         ELSE CHOOSE i \in ends : \A j \in ends : i <= j
             IN  SubSeq(url, start, stop - 1)

\* the lowercased netloc without a leading "www.", None (the empty
\* sequence) when nothing is left
extract_domain_from_url(url) ==
    LET domain == Lower(Netloc(url))
    IN  IF StartsWith(domain, <<"w", "w", "w", ".">>)
        THEN SubSeq(domain, 5, Len(domain)) ELSE domain

url_shorteners ==
    <<<<"b", "i", "t", ".", "l", "y">>,
      <<"t", "i", "n", "y", "u", "r", "l", ".", "c", "o", "m">>,
      <<"t", ".", "c", "o">>,
      <<"g", "o", "o", ".", "g", "l">>,
      <<"o", "w", ".", "l", "y">>,
      <<"i", "s", ".", "g", "d">>,
      <<"b", "u", "f", "f", ".", "l", "y">>,
      <<"r", "e", "b", "r", "a", "n", "d", ".", "l", "y">>,
      <<"c", "u", "t", "t", ".", "l", "y">>,
      <<"s", "h", "o", "r", "t", "u", "r", "l", ".", "a", "t">>>>

suspicious_tlds ==
    <<<<".", "x", "y", "z">>,
      <<".", "t", "o", "p">>,
      <<".", "c", "l", "u", "b">>,
      <<".", "w", "o", "r", "k">>,
      <<".", "c", "l", "i", "c", "k">>,
      <<".", "l", "i", "n", "k">>,
      <<".", "t", "k">>,
      <<".", "m", "l">>,
      <<".", "g", "a">>,
      <<".", "c", "f">>,
      <<".", "g", "q">>>>

QRCodeInfo(data, page) == [data |-> data, page |-> page]

\* any(domain == exp or domain.endswith(f".{exp}") for exp in expected_domains)
DomainMatches(domain, expected_domains) ==
    \E k \in DOMAIN expected_domains :
        \/ domain = expected_domains[k]
        \/ EndsWith(domain, <<".">> \o expected_domains[k])

\* the flags one turn of "for qr in qr_codes" appends; expected_domains is
\* the empty sequence for None and for [], which the code treats alike
QrFlags(qr, expected_domains) ==
    IF ~(StartsWith(qr.data, <<"h", "t", "t", "p", ":", "/", "/">>)
         \/ StartsWith(qr.data, <<"h", "t", "t", "p", "s", ":", "/", "/">>))
    THEN <<>>
    ELSE LET domain == extract_domain_from_url(qr.data)
         IN  IF domain = <<>> THEN <<>>
             ELSE IF \E k \in DOMAIN url_shorteners : Contains(domain, url_shorteners[k])
             THEN <<DetailedFlag("high", "VISUAL_QR_URL_SHORTENER",
                        [qr_data |-> qr.data, domain |-> domain, page |-> qr.page])>>
             ELSE (IF \E k \in DOMAIN suspicious_tlds : EndsWith(domain, suspicious_tlds[k])
                   THEN <<DetailedFlag("medium", "VISUAL_QR_SUSPICIOUS_TLD",
                              [qr_data |-> qr.data, domain |-> domain, page |-> qr.page])>>
                   ELSE <<>>)
                  \o (IF expected_domains # <<>> /\ ~DomainMatches(domain, expected_domains)
                      THEN <<DetailedFlag("critical", "VISUAL_QR_DOMAIN_MISMATCH",
                                 [qr_data |-> qr.data, qr_domain |-> domain,
                                  expected_domains |-> expected_domains,
                                  page |-> qr.page])>>
                      ELSE <<>>)

RECURSIVE QrFlagsOfFirst(_, _, _)
\* the flags after the first k QR codes
QrFlagsOfFirst(qr_codes, expected_domains, k) ==
    IF k = 0 THEN <<>>
    ELSE QrFlagsOfFirst(qr_codes, expected_domains, k - 1)
             \o QrFlags(qr_codes[k], expected_domains)

check_qr_codes(qr_codes, expected_domains) ==
    QrFlagsOfFirst(qr_codes, expected_domains, Len(qr_codes))

\* ------------------------------------------------------------------ SpecQr
\* check_qr_codes applied to up to MaxQrCodes payloads and to no, one or two
\* expected domains.
MaxQrCodes == 2

QrPayloads ==
    {<<"h", "t", "t", "p", "s", ":", "/", "/", "w", "w", "w", ".", "e", "d", "f", ".", "f", "r", "/", "f">>,
     <<"h", "t", "t", "p", "s", ":", "/", "/", "b", "i", "l", "l", "i", "n", "g", ".", "e", "d", "f", ".", "f", "r", "/", "p", "a", "y">>,
     <<"h", "t", "t", "p", "s", ":", "/", "/", "p", "h", "i", "s", "h", "i", "n", "g", ".", "c", "o", "m", "/", "e", "d", "f">>,
     <<"h", "t", "t", "p", "s", ":", "/", "/", "b", "i", "t", ".", "l", "y", "/", "x">>,
     <<"h", "t", "t", "p", ":", "/", "/", "p", "a", "y", ".", "x", "y", "z", "/">>,
     <<"W", "I", "F", "I", ":", "S", ":", "b", "o", "x">>,
     <<"h", "t", "t", "p", "s", ":", "/", "/", "n", "o", "t", "e", "d", "f", ".", "f", "r", "/">>,
     <<"h", "t", "t", "p", "s", ":", "/", "/", "/", "x">>,
     <<"h", "t", "t", "p", "s", ":", "/", "/", "E", "D", "F", ".", "f", "r">>}

ExpectedDomainsVals ==
    {<<>>,
     <<<<"e", "d", "f", ".", "f", "r">>>>,
     <<<<"e", "d", "f", ".", "f", "r">>, <<"b", "i", "t", ".", "l", "y">>>>,
     <<<<"p", "a", "y", ".", "x", "y", "z">>>>}

InitQr ==
    \E payloads \in SeqsUpTo(QrPayloads, MaxQrCodes) :
        \E expected_domains \in ExpectedDomainsVals :
            CallOf("check_qr_codes",
                   {[qr_codes |-> [i \in DOMAIN payloads |-> QRCodeInfo(payloads[i], 0)],
                     expected_domains |-> expected_domains]})

CheckQrCodes ==
    fn = "check_qr_codes" /\ Returns(check_qr_codes(arg.qr_codes, arg.expected_domains))

NextQr == CheckQrCodes

SpecQr == InitQr /\ [][NextQr]_vars

\* ------------------------------------------------------------------ SpecLegal
\* check_legal_mentions applied to texts with up to MaxMentions SIRET, SIREN
\* and VAT mentions each, right and mistyped, of one company or of two.
MaxMentions == 2

\* the VAT number of the company with RCS_SIREN, "FR82383960135"
RCS_VAT == [prefix |-> "FR", digits |-> <<8, 2>> \o RCS_SIREN]

InitLegal ==
    \E siret_mentions \in SeqsUpTo({EDF_SIRET, EDF_SIRET_TYPO, TOTAL_SIRET}, MaxMentions) :
        \E siren_mentions \in SeqsUpTo({RCS_SIREN, RCS_SIREN_TYPO}, MaxMentions) :
            \E vat_mentions \in SeqsUpTo({EDF_VAT, EDF_VAT_TYPO, RCS_VAT}, MaxMentions) :
                \E has_rcs \in BOOLEAN, is_likely_french_invoice \in BOOLEAN :
                    CallOf("check_legal_mentions",
                           {[text |-> Text(siret_mentions, siren_mentions, <<>>, vat_mentions),
                             has_rcs |-> has_rcs,
                             is_likely_french_invoice |-> is_likely_french_invoice]})

CheckLegalMentions ==
    /\ fn = "check_legal_mentions"
    /\ Returns(check_legal_mentions(arg.text, arg.has_rcs, arg.is_likely_french_invoice))

NextLegal == CheckLegalMentions

SpecLegal == InitLegal /\ [][NextLegal]_vars

\* ------------------------------------------------------------------ SpecDates
\* check_date_logic applied to up to MaxDates extracted dates that lie within
\* MaxHalfDays half days of each other.
MaxDates == 3
MaxHalfDays == 3

DateTypes == {"invoice", "service", "due", "order", None}

InitDates ==
    \E dates \in SeqsUpTo({ExtractedDate(d, t) : d \in 0..MaxHalfDays, t \in DateTypes},
                          MaxDates) :
        CallOf("check_date_logic", {dates})

CheckDateLogic == fn = "check_date_logic" /\ Returns(check_date_logic(arg))

NextDates == CheckDateLogic

SpecDates == InitDates /\ [][NextDates]_vars

\* ------------------------------------------------------------------ twod_doc.py, verification
\* verify_2d_doc_against_pdf as a function of what its searches answer. For
\* each compared field, searches says whether the 2D-DOC holds it and what
\* the search of the PDF text gave: "absent" (no such field), "unparseable"
\* (normalize_amount returned None), "found" or "missing". "10" stands for
\* beneficiary_name.
TextDIs == {"10", "24", "25", "22", "47", "49", "18"}
AmountDIs == {"4V", "4X", "41", "43", "1D"}

ComparisonMatch(di, match) == [di |-> di, match |-> match]

TwoDocVerificationResult(comparisons, overall_match, fraud_indicators) ==
    [comparisons |-> comparisons, overall_match |-> overall_match,
     fraud_indicators |-> fraud_indicators]

Outcome(searches, di) == IF di \in DOMAIN searches THEN searches[di] ELSE "absent"

\* the value is there and, for an amount, normalize_amount read it
Compared(searches, di) == Outcome(searches, di) \in {"found", "missing"}

\* a block that appends a comparison and, without a match, a fraud indicator
ComparisonBlock(searches, di, indicator) ==
    IF Compared(searches, di)
    THEN [comparisons |-> <<ComparisonMatch(di, searches[di] = "found")>>,
          fraud_indicators |-> IF searches[di] = "found" THEN <<>> ELSE <<indicator>>]
    ELSE [comparisons |-> <<>>, fraud_indicators |-> <<>>]

\* "Street address (DI 22)": a comparison and nothing else
StreetBlock(searches) ==
    IF Compared(searches, "22")
    THEN [comparisons |-> <<ComparisonMatch("22", searches["22"] = "found")>>,
          fraud_indicators |-> <<>>]
    ELSE [comparisons |-> <<>>, fraud_indicators |-> <<>>]

\* "Verify calculated amounts (solde = impôt - retenue)"
BalanceBlock(searches, balance_found) ==
    IF Compared(searches, "4V") /\ Compared(searches, "4X")
    THEN [comparisons |-> <<ComparisonMatch("CALC", balance_found)>>,
          fraud_indicators |->
              IF balance_found THEN <<>> ELSE <<"Solde calculé non trouvé dans le PDF">>]
    ELSE [comparisons |-> <<>>, fraud_indicators |-> <<>>]

RECURSIVE IncomeLoop(_, _)
\* "for income, income_str, context in potential_incomes" from the k-th on:
\* an income is "too_low" (below half of min_income), "too_high" (above twice
\* max_income) or "plausible"
IncomeLoop(potential_incomes, k) ==
    IF k > Len(potential_incomes)
    THEN [comparisons |-> <<>>, fraud_indicators |-> <<>>, broke |-> FALSE]
    ELSE IF potential_incomes[k] = "too_low"
    THEN [comparisons |-> <<ComparisonMatch("INCOME_CHECK", FALSE)>>,
          fraud_indicators |-> <<"CRITIQUE: Revenu affiché incohérent avec impôt signé">>,
          broke |-> TRUE]
    ELSE LET rest == IncomeLoop(potential_incomes, k + 1)
         IN  IF potential_incomes[k] = "too_high"
             THEN [rest EXCEPT !.comparisons =
                                   <<ComparisonMatch("INCOME_CHECK", FALSE)>> \o @]
             ELSE rest

\* "Income consistency check"; parts is 1.0 without a DI 43
IncomeBlock(searches, parts_positive, potential_incomes) ==
    IF /\ Compared(searches, "4V")
       /\ Outcome(searches, "43") # "unparseable"
       /\ (Outcome(searches, "43") = "absent" \/ parts_positive)
    THEN LET loop == IncomeLoop(potential_incomes, 1)
             plausible == SelectSeq(potential_incomes, LAMBDA inc : inc = "plausible")
         IN  [comparisons |->
                  loop.comparisons
                  \o (IF ~loop.broke /\ plausible # <<>>
                      THEN <<ComparisonMatch("INCOME_CHECK", TRUE)>> ELSE <<>>),
              fraud_indicators |-> loop.fraud_indicators]
    ELSE [comparisons |-> <<>>, fraud_indicators |-> <<>>]

\* the blocks in the order of the code
VerificationBlocks(searches, balance_found, parts_positive, potential_incomes) ==
    <<ComparisonBlock(searches, "10", "Nom non trouvé dans le PDF"),
      ComparisonBlock(searches, "24", "Code postal non trouvé"),
      ComparisonBlock(searches, "25", "Ville non trouvée"),
      StreetBlock(searches),
      ComparisonBlock(searches, "4V", "Montant impôt non trouvé"),
      ComparisonBlock(searches, "4X", "Montant retenue non trouvé"),
      BalanceBlock(searches, balance_found),
      ComparisonBlock(searches, "41", "CRITIQUE: Revenu fiscal de référence non trouvé"),
      ComparisonBlock(searches, "43", "Nombre de parts non trouvé dans le PDF"),
      ComparisonBlock(searches, "47", "Numéro fiscal non trouvé"),
      IncomeBlock(searches, parts_positive, potential_incomes),
      ComparisonBlock(searches, "49", "Numéro fiscal déclarant 2 non trouvé"),
      ComparisonBlock(searches, "18", "Numéro de facture non trouvé"),
      ComparisonBlock(searches, "1D", "Montant facture non trouvé")>>

RECURSIVE ComparisonsOf(_, _)
ComparisonsOf(blocks, k) ==
    IF k = 0 THEN <<>> ELSE ComparisonsOf(blocks, k - 1) \o blocks[k].comparisons

RECURSIVE FraudIndicatorsOf(_, _)
FraudIndicatorsOf(blocks, k) ==
    IF k = 0 THEN <<>> ELSE FraudIndicatorsOf(blocks, k - 1) \o blocks[k].fraud_indicators

verify_2d_doc_against_pdf(searches, balance_found, parts_positive, potential_incomes) ==
    LET blocks == VerificationBlocks(searches, balance_found, parts_positive,
                                     potential_incomes)
        comparisons == ComparisonsOf(blocks, Len(blocks))
        \* all(c.match for c in comparisons) if comparisons else True
        overall_match == \A i \in DOMAIN comparisons : comparisons[i].match
    IN  TwoDocVerificationResult(comparisons, overall_match,
                                 FraudIndicatorsOf(blocks, Len(blocks)))

\* ------------------------------------------------------------------ SpecVerify
\* verify_2d_doc_against_pdf applied to 2D-DOCs with up to MaxComparedFields of
\* the compared fields and to PDF texts with up to MaxIncomes income figures.
MaxComparedFields == 2
MaxIncomes == 2

InitVerify ==
    \E present \in {S \in SUBSET (TextDIs \cup AmountDIs) :
                       Cardinality(S) <= MaxComparedFields} :
        \E searches \in [present -> {"found", "missing", "unparseable"}] :
            /\ \A di \in present : searches[di] = "unparseable" => di \in AmountDIs
            /\ \E balance_found \in
                      IF Compared(searches, "4V") /\ Compared(searches, "4X")
                      THEN BOOLEAN ELSE {FALSE} :
                   \E parts_positive \in
                          IF Compared(searches, "43") THEN BOOLEAN ELSE {TRUE} :
                       \E potential_incomes \in
                              IF Compared(searches, "4V")
                              THEN SeqsUpTo({"too_low", "too_high", "plausible"}, MaxIncomes)
                              ELSE {<<>>} :
                           CallOf("verify_2d_doc_against_pdf",
                                  {[searches |-> searches,
                                    balance_found |-> balance_found,
                                    parts_positive |-> parts_positive,
                                    potential_incomes |-> potential_incomes]})

Verify2dDocAgainstPdf ==
    /\ fn = "verify_2d_doc_against_pdf"
    /\ Returns(verify_2d_doc_against_pdf(arg.searches, arg.balance_found,
                                         arg.parts_positive, arg.potential_incomes))

NextVerify == Verify2dDocAgainstPdf

SpecVerify == InitVerify /\ [][NextVerify]_vars

\* ------------------------------------------------------------------ claims on Spec
\* the flags of severity sev over all modules of mr, counted module by module
RECURSIVE CountSeverity(_, _, _)
CountSeverity(mr, k, sev) ==
    IF k = 0 THEN 0
    ELSE CountSeverity(mr, k - 1, sev)
         + Cardinality({j \in DOMAIN mr[k].flags : mr[k].flags[j].severity = sev})

K == CountSeverity(module_results, Len(module_results), "critical")
H == CountSeverity(module_results, Len(module_results), "high")
M == CountSeverity(module_results, Len(module_results), "medium")
\* the weighted aggregate: what calculate_final_score returns for the list
Aggregates == calculate_final_score(module_results)

\* C1: with two or more critical flags in total, the returned trust_score is at
\* most 19 and the returned risk_level is CRITICAL, whatever the scores and
\* confidences of the modules.
C1_TwoCriticalForceCritical ==
    (pc = "done" /\ K >= 2) =>
        (result.trust_score <= 19 /\ result.risk_level = "CRITICAL")

C1_Witness ==
    /\ pc = "done" /\ K >= 2 /\ result.trust_score = 19
    /\ \A s \in Aggregates : s >= 80

\* C2: with exactly one critical flag in total, the returned trust_score is at
\* most 40 and the returned risk_level is HIGH or CRITICAL.
C2_OneCriticalCaps ==
    (pc = "done" /\ K = 1) =>
        (result.trust_score <= 40 /\ result.risk_level \in {"HIGH", "CRITICAL"})

C2_Witness ==
    /\ pc = "done" /\ K = 1 /\ result.risk_level = "HIGH"
    /\ \A s \in Aggregates : s >= 80

RiskRank(rl) ==
    CASE rl = "LOW" -> 0 [] rl = "MEDIUM" -> 1 [] rl = "HIGH" -> 2 [] rl = "CRITICAL" -> 3

\* C3: over all results create_analysis_result returns, risk_level is a
\* monotone function of trust_score: a result whose trust_score is lower than
\* or equal to another's never has a less severe risk_level.
C3_RiskMonotoneInScore ==
    pc = "done" =>
        \A other \in ModuleResultLists(MaxModules, MaxFlags) : \A o \in create_analysis_result(other) :
            result.trust_score <= o.trust_score =>
                RiskRank(result.risk_level) >= RiskRank(o.risk_level)

\* C4: with at least one critical flag the score is max(5, min(S, 40) - 5*H -
\* 2*M), H and M counted over all modules, before the cap of 19 that two or
\* more critical flags add.
C4_OverrideFormula ==
    (pc = "done" /\ K >= 1) =>
        \E s \in Aggregates :
            LET x == Max(5, Min(s, 40) - 5 * H - 2 * M)
            IN  result.trust_score = IF K >= 2 THEN Min(x, 19) ELSE x

C4_Witness ==
    /\ pc = "done" /\ K = 1 /\ H + M >= 1
    /\ \A s \in Aggregates : result.trust_score < Min(s, 40)
    /\ result.trust_score > 5

ModulesOccurrences(mr, f) ==
    Cardinality(UNION {{<<i, j>> : j \in {n \in DOMAIN mr[i].flags : mr[i].flags[n] = f}} :
                       i \in DOMAIN mr})

Occurrences(fs, f) == Cardinality({i \in DOMAIN fs : fs[i] = f})

\* C5: a critical flag a module emitted is still there, with severity
\* critical, in the modules of the result and in the output of
\* collect_all_flags, as many times as it was emitted, and the override counts
\* it in K.
C5_CriticalFlagsKept ==
    pc = "done" =>
        /\ \A i \in DOMAIN module_results : \A j \in DOMAIN module_results[i].flags :
              LET f == module_results[i].flags[j]
              IN  f.severity = "critical" =>
                    /\ i \in DOMAIN result.modules
                    /\ j \in DOMAIN result.modules[i].flags
                    /\ result.modules[i].flags[j] = f
                    /\ Occurrences(collect_all_flags(result.modules), f)
                         = ModulesOccurrences(module_results, f)
        /\ count_flags_by_severity(collect_all_flags(result.modules))["critical"] = K
        /\ K >= 1 => result.risk_level \in {"HIGH", "CRITICAL"}

C5_Witness ==
    /\ pc = "done" /\ K >= 2
    /\ \E i \in DOMAIN module_results : \E j \in DOMAIN module_results[i].flags :
          /\ module_results[i].flags[j].severity = "critical"
          /\ i > 1
          /\ module_results[1].flags # <<>>
          /\ module_results[1].flags[1].severity = "critical"

\* ------------------------------------------------------------------ claims on SpecScore
\* the weights as the specification lists them, in tenths
StatedWeight(name) ==
    CASE name = "metadata"  -> 10
      [] name = "content"   -> 12
      [] name = "visual"    -> 8
      [] name = "fonts"     -> 9
      [] name = "images"    -> 8
      [] name = "structure" -> 13
      [] name = "forensics" -> 10
      [] name = "external"  -> 15
      [] OTHER              -> 10

RECURSIVE ConfDenProduct(_, _)
ConfDenProduct(mr, k) ==
    IF k = 0 THEN 1 ELSE ConfDenProduct(mr, k - 1) * mr[k].confidence[2]

\* sum of W(m)*c(m), times p
RECURSIVE SumWC(_, _, _)
SumWC(mr, k, p) ==
    IF k = 0 THEN 0
    ELSE SumWC(mr, k - 1, p)
         + StatedWeight(mr[k].module) * mr[k].confidence[1] * (p \div mr[k].confidence[2])

\* sum of score(m)*W(m)*c(m), times p
RECURSIVE SumSWC(_, _, _)
SumSWC(mr, k, p) ==
    IF k = 0 THEN 0
    ELSE SumSWC(mr, k - 1, p)
         + mr[k].score * StatedWeight(mr[k].module) * mr[k].confidence[1]
             * (p \div mr[k].confidence[2])

AvgDen == SumWC(module_results, Len(module_results),
                ConfDenProduct(module_results, Len(module_results)))
AvgNum == SumSWC(module_results, Len(module_results),
                 ConfDenProduct(module_results, Len(module_results)))

Abs(x) == IF x < 0 THEN -x ELSE x

\* r is n/d clamped to [0,100] and rounded: an integer of [0,100] at most one
\* half away from it
IsClampedRound(r, n, d) ==
    IF n >= 100 * d THEN r = 100
    ELSE IF n <= 0 THEN r = 0
    ELSE /\ r \in 0..100
         /\ 2 * Abs(r * d - n) <= d

C6_ModuleFailureIsolated ==
    (pc \in {"raised", "done"} /\ failed_module # "none") =>
        /\ result # NoResult
        /\ \E i \in DOMAIN result.modules :
              /\ result.modules[i].module = failed_module
              /\ result.modules[i].confidence[1] = 0
              /\ result.modules[i].flags = <<>>
              /\ result.modules[i].score = 100

\* C15: the modules of the AnalysisResult analyze returns are, in this order,
\* metadata, content, visual, fonts, images, structure, forensics and, only
\* when external verification is enabled, external.
C15_ModulesInFixedOrder ==
    pc = "done" =>
        [i \in DOMAIN result.modules |-> result.modules[i].module] =
            IF enable_external
            THEN <<"metadata", "content", "visual", "fonts", "images", "structure",
                   "forensics", "external">>
            ELSE <<"metadata", "content", "visual", "fonts", "images", "structure",
                   "forensics">>

\* an analysis with external verification returned its eight results, some
\* modules with findings and some without
C15_Witness ==
    /\ pc = "done"
    /\ enable_external
    /\ Len(result.modules) = 8
    /\ result.modules[5].flags # <<>>
    /\ result.modules[6].flags = <<>>
    /\ result.modules[8].module = "external"

NetworkFailure(response) ==
    \/ response.raises # None
    \/ response.status \notin {200, 404}

\* C7: every lookup that fails for a network reason adds exactly one
\* low-severity EXTERNAL_*_VERIFICATION_FAILED flag, nothing more severe, and
\* analyze_external does not raise.
C7_NetworkFailuresAreLowFlags ==
    /\ pc # "raised"
    /\ \A i \in DOMAIN queries :
          NetworkFailure(queries[i].response) =>
              /\ Len(queries[i].flags) = 1
              /\ queries[i].flags[1].severity = "low"
              /\ queries[i].flags[1].code \in
                    {"EXTERNAL_SIRET_VERIFICATION_FAILED",
                     "EXTERNAL_SIREN_VERIFICATION_FAILED",
                     "EXTERNAL_VAT_VERIFICATION_FAILED"}

\* the result for the same document when no lookup is attempted
NotAttemptedResults ==
    create_analysis_result(
        Append(SubSeq(module_results, 1, 7), ExternalResult(<<>>, 0, 0)))

\* C8: when every lookup of an analysis fails on a timeout or a refused
\* connection and is flagged low, the trust score is at most 5 points below
\* the score of the same document with no lookup attempted.
C8_NetworkFailuresCostAtMostLow ==
    (/\ pc = "done"
     /\ queries # <<>>
     /\ \A i \in DOMAIN queries :
           queries[i].response.raises \in {"Timeout", "ConnectionError"}
     /\ \A i \in DOMAIN all_flags : all_flags[i].severity = "low")
    => \A base \in NotAttemptedResults :
          result.trust_score >= base.trust_score - 5

QueriedAs(kinds, id) ==
    \E i \in DOMAIN queries : queries[i].kind \in kinds /\ queries[i].id = id

CoveredBySiretQuery(siren) ==
    \E i \in DOMAIN queries :
        queries[i].kind = "SIRET" /\ SubSeq(queries[i].id, 1, 9) = siren

\* C9: once the loops are over, every checksum-valid SIRET was queried, every
\* checksum-valid SIREN and every potential SIREN was queried or is covered by
\* a query issued for it or for a SIRET that starts with it, and no SIRET
\* query follows a SIREN query.
C9_EveryValidIdentifierQueried ==
    pc \in {"score", "collect", "done"} =>
        /\ \A e \in Range(doc.sirets) : e[2] => QueriedAs({"SIRET"}, e[1])
        /\ \A e \in Range(doc.sirens) :
              e[2] => QueriedAs({"SIREN"}, e[1]) \/ CoveredBySiretQuery(e[1])
        /\ \A p \in Range(doc.potential_sirens) :
              QueriedAs({"SIREN", "POTENTIAL_SIREN"}, p) \/ CoveredBySiretQuery(p)
        /\ \A i, j \in DOMAIN queries :
              (i < j /\ queries[i].kind \in {"SIREN", "POTENTIAL_SIREN"})
                  => queries[j].kind # "SIRET"

\* C11: calculate_final_score returns 100 when the list is empty or every
\* module has confidence 0, whatever the scores.
C11_NoWeightScoresHundred ==
    (/\ pc = "done"
     /\ final_score # -1
     /\ \A i \in DOMAIN module_results : module_results[i].confidence[1] = 0)
    => final_score = 100

C11_Witness ==
    /\ pc = "done"
    /\ final_score = 100
    /\ Len(module_results) = 2
    /\ \A i \in DOMAIN module_results :
          /\ module_results[i].confidence[1] = 0
          /\ module_results[i].score = 0

\* ----------------------------------------------------------- claims on SpecModule
\* the penalties as the specification lists them
StatedPenalty(sev) ==
    CASE sev = "low" -> 5
      [] sev = "medium" -> 15
      [] sev = "high" -> 30
      [] sev = "critical" -> 50

RECURSIVE StatedPenaltySum(_, _)
StatedPenaltySum(flags, k) ==
    IF k = 0 THEN 0
    ELSE StatedPenaltySum(flags, k - 1) + StatedPenalty(flags[k].severity)

\* C12: the score of a returned ModuleResult is an integer of [0,100] equal to
\* max(0, 100 minus the sum of the penalties of its flags), with low = 5,
\* medium = 15, high = 30, critical = 50.
C12_ScoreIsHundredMinusPenalties ==
    pc = "done" =>
        /\ ret.score \in 0..100
        /\ ret.score = Max(0, 100 - StatedPenaltySum(ret.flags, Len(ret.flags)))

C12_Witness ==
    /\ pc = "done"
    /\ fn = "content"
    /\ Len(ret.flags) = 3
    /\ StatedPenaltySum(ret.flags, 3) > 100
    /\ ret.score = 0

\* ------------------------------------------------------------- claims on SpecRisk
\* C13: get_risk_level answers LOW exactly for score >= 80, MEDIUM exactly for
\* 50..79, HIGH exactly for 20..49 and CRITICAL exactly for score <= 19.
C13_RiskBands ==
    pc = "done" =>
        /\ (ret = "LOW") <=> (arg >= 80)
        /\ (ret = "MEDIUM") <=> (50 <= arg /\ arg <= 79)
        /\ (ret = "HIGH") <=> (20 <= arg /\ arg <= 49)
        /\ (ret = "CRITICAL") <=> (arg <= 19)

C13_Witness ==
    /\ pc = "done"
    /\ arg = 80
    /\ ret = "LOW"

\* ------------------------------------------------------------------ claims on SpecCollect
\* the flags of the first k modules of mr, module after module, each
\* module's flags in the order they were inserted
RECURSIVE FlagsInInputOrder(_, _)
FlagsInInputOrder(mr, k) ==
    IF k = 0 THEN <<>>
    ELSE LET before == FlagsInInputOrder(mr, k - 1)
             fl == mr[k].flags
         IN  [i \in 1..(Len(before) + Len(fl)) |->
                 IF i <= Len(before) THEN before[i] ELSE fl[i - Len(before)]]

SeverityRank == [critical |-> 1, high |-> 2, medium |-> 3, low |-> 4]

OfSeverity(fs, sev) == SelectSeq(fs, LAMBDA f : f.severity = sev)

\* C14: collect_all_flags returns every flag of every module exactly once,
\* critical before high before medium before low, and the flags of one
\* severity in the order of their modules and, within a module, in the order
\* they were inserted.
C14_CollectIsStableSort ==
    (pc = "done" /\ fn = "collect_all_flags") =>
        LET given == FlagsInInputOrder(arg, Len(arg))
        IN  /\ Len(ret) = Len(given)
            /\ \A f \in CollectFlagVals : Occurrences(ret, f) = ModulesOccurrences(arg, f)
            /\ \A i, j \in DOMAIN ret :
                   i < j => SeverityRank[ret[i].severity] <= SeverityRank[ret[j].severity]
            /\ \A sev \in SeverityLevel : OfSeverity(ret, sev) = OfSeverity(given, sev)

\* two modules: the first holds a low flag and then a high one, the second a
\* high flag with another code; the high flags come out first, the first
\* module's before the second's.
C14_Witness ==
    /\ pc = "done" /\ fn = "collect_all_flags"
    /\ Len(arg) = 2
    /\ arg[1].flags = <<Flag("low", "SECOND_CODE"), Flag("high", "SECOND_CODE")>>
    /\ arg[2].flags = <<Flag("high", "FIRST_CODE")>>
    /\ ret = <<Flag("high", "SECOND_CODE"), Flag("high", "FIRST_CODE"),
               Flag("low", "SECOND_CODE")>>

\* ------------------------------------------------------------------ claims on SpecHandles
\* C17: a function that opened the PDF itself has closed the handle when it
\* is left, whether it returns or raises.
C17_HandleClosedOnEveryExit ==
    pc \in {"done", "raised"} => handle # "open"

\* ------------------------------------------------------------------ claims on SpecLuhn
\* the Luhn sum of s where the digits at the 0-indexed positions of the given
\* parity (0: even, 1: odd) are doubled, 9 taken off the doubled values above 9
RECURSIVE StatedLuhnSum(_, _, _)
StatedLuhnSum(s, parity, from) ==
    IF from >= Len(s) THEN 0
    ELSE LET digit == s[from + 1]
             twice == 2 * digit
             term == IF from % 2 # parity THEN digit
                     ELSE IF twice > 9 THEN twice - 9 ELSE twice
         IN  term + StatedLuhnSum(s, parity, from + 1)

\* the digits c for which s, its last digit replaced by c, has a Luhn sum
\* congruent to 0 modulo 10
CheckDigits(s, parity) ==
    {c \in 0..9 : StatedLuhnSum([s EXCEPT ![Len(s)] = c], parity, 0) % 10 = 0}

\* C18: validate_siret_checksum holds of a 14-digit string exactly when its
\* last digit is the one digit that brings the Luhn sum with the even
\* 0-indexed positions doubled to 0 modulo 10, and validate_siren_checksum
\* holds of a 9-digit string exactly when its last digit is the one digit that
\* does so with the odd 0-indexed positions doubled.
C18_LuhnCheckDigitIsUnique ==
    (pc = "done" /\ fn \in {"validate_siret_checksum", "validate_siren_checksum"}) =>
        LET parity == IF fn = "validate_siret_checksum" THEN 0 ELSE 1
        IN  /\ Len(arg) = IF fn = "validate_siret_checksum" THEN 14 ELSE 9
            /\ Cardinality(CheckDigits(arg, parity)) = 1
            /\ ret <=> (arg[Len(arg)] \in CheckDigits(arg, parity))

\* a SIREN that differs from a valid one in the last digit only is rejected
C18_Witness ==
    /\ pc = "done"
    /\ fn = "validate_siren_checksum"
    /\ SubSeq(arg, 1, 8) = SubSeq(EDF_SIREN, 1, 8)
    /\ arg[9] = (EDF_SIREN[9] + 1) % 10
    /\ ret = FALSE
    /\ CheckDigits(arg, 1) = {EDF_SIREN[9]}

\* ------------------------------------------------------------------ claims on SpecVat
\* the number a string of digits reads as, acc being the number read so far
RECURSIVE NumberRead(_, _)
NumberRead(digits, acc) ==
    IF digits = <<>> THEN acc ELSE NumberRead(Tail(digits), 10 * acc + Head(digits))

\* C19: validate_french_vat("FR" + dd + siren) holds exactly when
\* validate_siren_checksum(siren) holds and dd, read as a number, is
\* (12 + 3 * (siren mod 97)) mod 97.
C19_FrenchVatKeyAndSiren ==
    (pc = "done" /\ fn = "validate_french_vat") =>
        LET dd == SubSeq(arg.digits, 1, 2)
            siren == SubSeq(arg.digits, 3, 11)
        IN  ret <=> /\ validate_siren_checksum(siren)
                    /\ NumberRead(dd, 0) = (12 + 3 * (NumberRead(siren, 0) % 97)) % 97

\* the right key in front of a SIREN whose own checksum fails: rejected
C19_Witness ==
    /\ pc = "done"
    /\ fn = "validate_french_vat"
    /\ LET siren == SubSeq(arg.digits, 3, 11)
       IN  /\ ~validate_siren_checksum(siren)
           /\ NumberRead(SubSeq(arg.digits, 1, 2), 0)
                 = (12 + 3 * (NumberRead(siren, 0) % 97)) % 97
    /\ ret = FALSE

\* ------------------------------------------------------------------ claims on SpecHexDate
LeapYear(y) == y % 4 = 0 /\ (y % 100 # 0 \/ y % 400 = 0)

\* the days from 2000-01-01 to the first day of year y
DaysToYear(y) == 365 * (y - 2000) + Cardinality({z \in 2000..(y - 1) : LeapYear(z)})

MonthLength(y, m) ==
    IF m = 2 THEN (IF LeapYear(y) THEN 29 ELSE 28)
    ELSE IF m \in {4, 6, 9, 11} THEN 30 ELSE 31

RECURSIVE DaysToMonth(_, _)
\* the days from the first day of year y to the first day of its month m
DaysToMonth(y, m) == IF m = 1 THEN 0 ELSE DaysToMonth(y, m - 1) + MonthLength(y, m - 1)

\* the number of days between 2000-01-01 and d
DaysSince2000(d) == DaysToYear(d.year) + DaysToMonth(d.year, d.month) + d.day - 1

\* the date that lies n days after 2000-01-01; a year has 365 or 366 days,
\* which leaves at most two years to choose from
DateAfter(n) ==
    LET y == CHOOSE y \in (2000 + n \div 366)..(2000 + n \div 365) :
                 DaysToYear(y) <= n /\ n < DaysToYear(y + 1)
        inYear == n - DaysToYear(y)
        m == CHOOSE m \in 1..12 :
                 /\ DaysToMonth(y, m) <= inYear
                 /\ inYear < DaysToMonth(y, m) + MonthLength(y, m)
    IN  [year |-> y, month |-> m, day |-> inYear - DaysToMonth(y, m) + 1]

\* the character of the hexadecimal digit v
HexDigit(v) ==
    CASE v < 10 -> ToString(v)
      [] v = 10 -> "A" [] v = 11 -> "B" [] v = 12 -> "C"
      [] v = 13 -> "D" [] v = 14 -> "E" [] v = 15 -> "F"

\* n written with four uppercase hexadecimal digits
FourHex(n) ==
    <<HexDigit(n \div 4096), HexDigit((n \div 256) % 16),
      HexDigit((n \div 16) % 16), HexDigit(n % 16)>>

\* d is not before first and not after last
DateBetween(d, first, last) ==
    LET key(x) == x.year * 10000 + x.month * 100 + x.day
    IN  key(first) <= key(d) /\ key(d) <= key(last)

\* the date a string of four hexadecimal digits is the encoding of
EncodedDate(hex_str) == DateAfter(IntBase16(hex_str, 4))

\* hex_str is the encoding of a date from 2000-01-01 to last inclusive
EncodesDateUpTo(hex_str, last) ==
    /\ \A i \in DOMAIN hex_str : IsHexChar(hex_str[i])
    /\ hex_str = FourHex(DaysSince2000(EncodedDate(hex_str)))
    /\ DateBetween(EncodedDate(hex_str), [year |-> 2000, month |-> 1, day |-> 1], last)

\* C20: hex_date_to_date("FFFF") is absent, and the encoding of every date
\* from 2000-01-01 to 2179-06-06 inclusive decodes to that date.
C20_HexDateRoundTrip ==
    (pc = "done" /\ fn = "hex_date_to_date") =>
        /\ arg = <<"F", "F", "F", "F">> => ret = NoObject
        /\ EncodesDateUpTo(arg, [year |-> 2179, month |-> 6, day |-> 6])
              => ret = Object(EncodedDate(arg))

\* C20, amended: hex_date_to_date("FFFF") is absent, and the encoding of
\* every date from 2000-01-01 to 2179-06-05 inclusive decodes to that date.
C20_HexDateRoundTripBelowFFFF ==
    (pc = "done" /\ fn = "hex_date_to_date") =>
        /\ arg = <<"F", "F", "F", "F">> => ret = NoObject
        /\ EncodesDateUpTo(arg, [year |-> 2179, month |-> 6, day |-> 5])
              => ret = Object(EncodedDate(arg))

\* the last date that has an encoding of its own
C20_Witness ==
    /\ pc = "done"
    /\ fn = "hex_date_to_date"
    /\ arg = <<"F", "F", "F", "E">>
    /\ EncodesDateUpTo(arg, [year |-> 2179, month |-> 6, day |-> 5])
    /\ ret = Object([year |-> 2179, month |-> 6, day |-> 5])

\* ------------------------------------------------------------------ claims on SpecHeader
\* the header size the specification gives a version, 0 for any other version
StatedHeaderSize(version) ==
    CASE version \in {<<"0", "1">>, <<"0", "2">>} -> 22
      [] version = <<"0", "3">> -> 24
      [] version = <<"0", "4">> -> 26
      [] OTHER -> 0

\* C21: parse_header accepts its input only if it starts with DC, its next
\* two characters are 01, 02, 03 or 04 and it is at least as long as the
\* header size of that version (22, 22, 24, 26); an input with another
\* version is rejected; the raw text of an accepted header is the first
\* header-size characters of the input.
C21_HeaderAcceptance ==
    (pc = "done" /\ fn = "parse_header") =>
        LET version == SubSeq(arg, 3, 4)
            size == StatedHeaderSize(version)
        IN  /\ ret # NoObject =>
                  /\ Len(arg) >= 2 /\ arg[1] = "D" /\ arg[2] = "C"
                  /\ size > 0
                  /\ Len(arg) >= size
                  /\ ret[1].raw = SubSeq(arg, 1, size)
                  /\ ret[1].version = version
            /\ (Len(arg) < 4 \/ size = 0) => ret = NoObject

\* data of version 03 that are one character longer than the header
C21_Witness ==
    /\ pc = "done"
    /\ fn = "parse_header"
    /\ Len(arg) = 25
    /\ SubSeq(arg, 1, 4) = <<"D", "C", "0", "3">>
    /\ ret # NoObject
    /\ Len(ret[1].raw) = 24

\* the values a header is built from; a date is Object(date) or NoObject
\* when absent, and the dates are those that have an encoding of their own
HeaderValues ==
    [version : {<<"0", "1">>, <<"0", "2">>, <<"0", "3">>, <<"0", "4">>},
     ca_id : {<<"F", "R", "0", "0">>, <<"F", "R", "0", "3">>},
     cert_id : {<<"0", "0", "0", "1">>},
     emission : {NoObject,
                 Object([year |-> 2000, month |-> 1, day |-> 1]),
                 Object([year |-> 2024, month |-> 1, day |-> 15]),
                 Object([year |-> 2179, month |-> 6, day |-> 5])},
     signature : {NoObject, Object([year |-> 2024, month |-> 1, day |-> 15])},
     document_type : {<<"0", "1">>, <<"0", "4">>},
     perimeter : {<<"0", "1">>, <<"0", "2">>},
     country : {<<"F", "R">>, <<"D", "E">>}]

\* four uppercase hexadecimal digits for the days since 2000-01-01, FFFF for
\* an absent date
EncodedHeaderDate(d) ==
    IF d = NoObject THEN <<"F", "F", "F", "F">> ELSE FourHex(DaysSince2000(d[1]))

HasPerimeter(version) == version \in {<<"0", "3">>, <<"0", "4">>}

HasCountry(version) == version = <<"0", "4">>

\* the header the grammar gives these values
BuildHeader(v) ==
    <<"D", "C">> \o v.version \o v.ca_id \o v.cert_id
        \o EncodedHeaderDate(v.emission) \o EncodedHeaderDate(v.signature)
        \o v.document_type
        \o (IF HasPerimeter(v.version) THEN v.perimeter ELSE <<>>)
        \o (IF HasCountry(v.version) THEN v.country ELSE <<>>)

\* C22: parse_header applied to the header built from a version, a CA id, a
\* certificate id, an emission date, a signature date, a document type and,
\* where the version has them, a perimeter and a country (an absent date
\* written FFFF) returns a header with exactly these values.
C22_ParseOfBuiltHeader ==
    (pc = "done" /\ fn = "parse_header") =>
        \A v \in HeaderValues :
            (Len(arg) = StatedHeaderSize(v.version) /\ arg = BuildHeader(v)) =>
                /\ ret # NoObject
                /\ ret[1].version = v.version
                /\ ret[1].ca_id = v.ca_id
                /\ ret[1].cert_id = v.cert_id
                /\ ret[1].emission_date = v.emission
                /\ ret[1].signature_date = v.signature
                /\ ret[1].document_type = v.document_type
                /\ ret[1].perimeter =
                      IF HasPerimeter(v.version) THEN Object(v.perimeter) ELSE NoObject
                /\ ret[1].country =
                      IF HasCountry(v.version) THEN Object(v.country) ELSE NoObject

\* a version 04 header built with the last date that can be encoded and an
\* absent signature date
C22_Witness ==
    /\ pc = "done"
    /\ fn = "parse_header"
    /\ arg = BuildHeader([version |-> <<"0", "4">>, ca_id |-> <<"F", "R", "0", "3">>,
                          cert_id |-> <<"0", "0", "0", "1">>,
                          emission |-> Object([year |-> 2179, month |-> 6, day |-> 5]),
                          signature |-> NoObject,
                          document_type |-> <<"0", "4">>,
                          perimeter |-> <<"0", "2">>, country |-> <<"D", "E">>])
    /\ ret # NoObject
    /\ ret[1].emission_date = Object([year |-> 2179, month |-> 6, day |-> 5])
    /\ ret[1].signature_date = NoObject
    /\ ret[1].country = Object(<<"D", "E">>)

\* ------------------------------------------------------------------ claims on SpecTwoDoc
\* the 1-based position of the first US after the first size characters of
\* s, or one past the end of s when there is none
FirstUSAfter(s, size) ==
    LET at == {i \in (size + 1)..Len(s) : s[i] = US}
    IN  IF at = {} THEN Len(s) + 1 ELSE CHOOSE i \in at : \A j \in at : i <= j

\* the characters of a signature, none for an absent signature
Payload(signature) == IF signature = NoObject THEN <<>> ELSE signature[1]

\* C23: parse_twod_doc ends the message at the first US after the header:
\* the message zone is what stands between the header and that US, the
\* fields are those of that zone and hold no character from the US on, and
\* the signature payload is exactly what follows the US.
C23_MessageEndsAtFirstUS ==
    (pc = "done" /\ fn = "parse_twod_doc" /\ ret # NoObject) =>
        LET size == StatedHeaderSize(SubSeq(arg, 3, 4))
            end == FirstUSAfter(arg, size)
            message == SubSeq(arg, size + 1, end - 1)
            following == IF end >= Len(arg) THEN <<>> ELSE SubSeq(arg, end + 1, Len(arg))
        IN  /\ ret[1].raw_message = message
            /\ ret[1].fields = parse_message(message)
            /\ \A i \in DOMAIN ret[1].fields :
                   LET text == ret[1].fields[i].di \o ret[1].fields[i].value
                   IN  \A j \in DOMAIN text : text[j] # US
            /\ TotalLen([i \in DOMAIN ret[1].fields |->
                            ret[1].fields[i].di \o ret[1].fields[i].value],
                        Len(ret[1].fields)) <= Len(message)
            /\ Payload(ret[1].signature) = following

\* a header that itself holds a US, a message of one field, the US, and a
\* signature that holds a second US
C23_Witness ==
    /\ pc = "done"
    /\ fn = "parse_twod_doc"
    /\ Len(arg) = 29
    /\ arg[7] = US
    /\ SubSeq(arg, 25, 29) = <<"6", "G", US, "8", US>>
    /\ ret # NoObject
    /\ Len(ret[1].fields) = 1
    /\ ret[1].raw_message = <<"6", "G">>
    /\ ret[1].signature = Object(<<"8", US>>)

\* ------------------------------------------------------------------ claims on SpecMessage
\* the field carries a mark that says its value was truncated
MarkedTruncated(field) ==
    IF "truncated" \in DOMAIN field THEN field.truncated = TRUE ELSE FALSE

\* C24: a variable-length field ends at the first GS or RS after its DI;
\* the field is marked as truncated when that terminator is RS and is not
\* when it is GS.
C24_RSMarksTruncatedField ==
    [][(pc = "loop" /\ Len(ret') = Len(ret) + 1) =>
          LET f == ret'[Len(ret')]
              value_end == idx + 2 + Len(f.value)
          IN  get_di_info(f.di).fixed_length = NoObject =>
                  /\ \A j \in DOMAIN f.value : f.value[j] \notin {GS, RS}
                  /\ value_end < Len(arg) =>
                        /\ arg[value_end + 1] = RS => MarkedTruncated(f)
                        /\ arg[value_end + 1] = GS => ~MarkedTruncated(f)]_vars

\* C29: parse_message terminates on every input: each turn of the loop that
\* yields a field moves the position forward by at least two characters, the
\* position never passes the end of the input, and the fields of an input of
\* n characters are never more than n / 2 rounded down.
C29_ParseMessageTerminates ==
    /\ [](idx <= Len(arg) /\ Len(ret) <= Len(arg) \div 2)
    /\ [][Len(ret') # Len(ret) => idx' >= idx + 2]_vars
    /\ <>(pc = "done")

\* five characters returned as two fields: an unknown DI with an empty value
\* closed by GS, then a fixed-length field cut short by the end of the data
C29_Witness ==
    /\ pc = "done"
    /\ fn = "parse_message"
    /\ arg = <<"8", "8", GS, "6", "8">>
    /\ Len(ret) = 2
    /\ idx = 5

\* ------------------------------------------------------------------ claims on SpecQr
\* the payload is an http or https URL
IsHttpUrl(data) ==
    \/ StartsWith(data, <<"h", "t", "t", "p", ":", "/", "/">>)
    \/ StartsWith(data, <<"h", "t", "t", "p", "s", ":", "/", "/">>)

\* the host of an http or https URL: what follows "://" up to the path
UrlHost(data) ==
    LET start == IF StartsWith(data, <<"h", "t", "t", "p", "s", ":", "/", "/">>) THEN 9 ELSE 8
        ends == {i \in start..Len(data) : data[i] \in {"/", "?", "#"}}
        stop == IF ends = {} THEN Len(data) + 1 ELSE CHOOSE i \in ends : \A j \in ends : i <= j
    IN  SubSeq(data, start, stop - 1)

\* the host neither equals an expected domain nor ends with "." followed by
\* one
HostMismatch(host, expected_domains) ==
    \A k \in DOMAIN expected_domains :
        /\ host # expected_domains[k]
        /\ ~EndsWith(host, <<".">> \o expected_domains[k])

\* C25: for every QR payload that is an http or https URL, when expected
\* domains are given and the host matches none of them, the flags hold a
\* critical VISUAL_QR_DOMAIN_MISMATCH for that payload, whatever other QR
\* flags the payload triggers.
C25_DomainMismatchAlwaysFlagged ==
    (pc = "done" /\ fn = "check_qr_codes") =>
        \A i \in DOMAIN arg.qr_codes :
            (/\ IsHttpUrl(arg.qr_codes[i].data)
             /\ arg.expected_domains # <<>>
             /\ HostMismatch(UrlHost(arg.qr_codes[i].data), arg.expected_domains))
            => \E j \in DOMAIN ret :
                  /\ ret[j].code = "VISUAL_QR_DOMAIN_MISMATCH"
                  /\ ret[j].severity = "critical"
                  /\ ret[j].details.qr_data = arg.qr_codes[i].data

\* ------------------------------------------------------------------ claims on SpecLegal
\* the SIRENs embedded in the checksum-valid VAT numbers of the text
ValidVatSirens(text) ==
    {SubSeq(text.vat_mentions[i].digits, 3, 11) :
        i \in {j \in DOMAIN text.vat_mentions : validate_french_vat(text.vat_mentions[j])}}

\* the checksum-valid SIRENs of the text and the first nine digits of its
\* checksum-valid SIRETs
ValidDocumentSirens(text) ==
    {text.siren_mentions[i] :
        i \in {j \in DOMAIN text.siren_mentions :
                  validate_siren_checksum(text.siren_mentions[j])}}
    \cup {SubSeq(text.siret_mentions[i], 1, 9) :
            i \in {j \in DOMAIN text.siret_mentions :
                      validate_siret_checksum(text.siret_mentions[j])}}

\* C26: check_legal_mentions emits a critical CONTENT_SIREN_VAT_MISMATCH
\* exactly when the text holds a checksum-valid VAT number and a
\* checksum-valid SIRET or SIREN, and no SIREN embedded in a valid VAT number
\* is a valid SIREN or the first nine digits of a valid SIRET.
C26_MismatchExactlyWhenDisjoint ==
    (pc = "done" /\ fn = "check_legal_mentions") =>
        ((\E j \in DOMAIN ret :
             ret[j].code = "CONTENT_SIREN_VAT_MISMATCH" /\ ret[j].severity = "critical")
         <=> (/\ ValidVatSirens(arg.text) # {}
              /\ ValidDocumentSirens(arg.text) # {}
              /\ \A v \in ValidVatSirens(arg.text) :
                    v \notin ValidDocumentSirens(arg.text)))

\* a valid SIRET of one company, the valid VAT number of another, and next to
\* them a mistyped VAT number of the first: the mismatch is flagged
C26_Witness ==
    /\ pc = "done"
    /\ fn = "check_legal_mentions"
    /\ arg.text.siret_mentions = <<EDF_SIRET>>
    /\ arg.text.siren_mentions = <<>>
    /\ arg.text.vat_mentions = <<RCS_VAT, EDF_VAT_TYPO>>
    /\ \E j \in DOMAIN ret :
          /\ ret[j].code = "CONTENT_SIREN_VAT_MISMATCH"
          /\ ret[j].details.siren_from_vat = {RCS_SIREN}
          /\ ret[j].details.siren_from_document = {EDF_SIREN}

\* ------------------------------------------------------------------ claims on SpecDates
\* the positions of the service-typed dates
ServicePositions(dates) == {i \in DOMAIN dates : dates[i].date_type = "service"}

\* the invoice date: the date of the first invoice-typed entry
TheInvoiceDate(dates) ==
    dates[CHOOSE i \in DOMAIN dates :
              /\ dates[i].date_type = "invoice"
              /\ \A j \in 1..(i - 1) : dates[j].date_type # "invoice"].date

\* the CONTENT_ANACHRONISM_SERVICE flags about the service date d
ServiceFlagsAbout(flags, d) ==
    {j \in DOMAIN flags :
        /\ flags[j].code = "CONTENT_ANACHRONISM_SERVICE"
        /\ flags[j].details.service_date = isoformat(d)}

\* C27: check_date_logic emits one CONTENT_ANACHRONISM_SERVICE flag of
\* severity high for each service-typed date more than one day (two half
\* days) later than the invoice date, and none for a service-typed date at
\* most one day later.
C27_ServiceAnachronismPerLateDate ==
    (/\ pc = "done"
     /\ fn = "check_date_logic"
     /\ \E i \in DOMAIN arg : arg[i].date_type = "invoice") =>
        /\ \A d \in {arg[i].date : i \in ServicePositions(arg)} :
              Cardinality(ServiceFlagsAbout(ret, d))
                  = IF d - TheInvoiceDate(arg) > 2
                    THEN Cardinality({i \in ServicePositions(arg) : arg[i].date = d})
                    ELSE 0
        /\ \A j \in DOMAIN ret :
              ret[j].code = "CONTENT_ANACHRONISM_SERVICE" =>
                  /\ ret[j].severity = "high"
                  /\ \E i \in ServicePositions(arg) :
                        ret[j].details.service_date = isoformat(arg[i].date)

\* an invoice date, a service date exactly one day later and one a day and a
\* half later: one flag, about the later one
C27_Witness ==
    /\ pc = "done"
    /\ fn = "check_date_logic"
    /\ arg = <<ExtractedDate(0, "invoice"), ExtractedDate(2, "service"),
               ExtractedDate(3, "service")>>
    /\ Len(ret) = 1
    /\ ret[1].code = "CONTENT_ANACHRONISM_SERVICE"
    /\ ret[1].details.service_date = isoformat(3)

\* ------------------------------------------------------------------ claims on Spec, the override against the aggregate
\* C28: the critical-flag override never raises the score: the returned
\* trust_score is at most the weighted aggregate calculate_final_score returns
\* for the same list of module results.
C28_OverrideNeverRaisesScore ==
    pc = "done" =>
        \E s \in Aggregates :
            /\ result = AnalysisResultFrom(module_results, s)
            /\ result.trust_score <= s

\* ------------------------------------------------------------------ claims on SpecVerify
\* C30: in the result of verify_2d_doc_against_pdf, overall_match is false
\* if and only if at least one fraud indicator was recorded.
C30_NoMatchIffFraudIndicator ==
    (pc = "done" /\ fn = "verify_2d_doc_against_pdf") =>
        (ret.overall_match = FALSE <=> ret.fraud_indicators # <<>>)

====
